---- MODULE Spec2Model ----
(***************************************************************************)
(* A model of the GSD dashboard's markdown extraction engine               *)
(* (src/parsers.py, class GSDParser).                                      *)
(*                                                                         *)
(* Text is a sequence of characters.  A character is a one-element string; *)
(* a character outside ASCII is written by its name: "emdash" (U+2014),    *)
(* "endash" (U+2013), "check" (U+2713), "block" (U+2588), "shade" (U+2591).*)
(* The regular expressions of the source are translated item by item and   *)
(* run by a backtracking matcher with Python's priorities (greedy and lazy *)
(* repetition, optional groups, alternation, named groups).                *)
(***************************************************************************)
EXTENDS Integers, Sequences, FiniteSets, TLC

VARIABLES
    project_md,     \* content of .planning/PROJECT.md, or Missing
    roadmap_md,     \* content of .planning/ROADMAP.md, or Missing
    state_md,       \* content of .planning/STATE.md, or Missing
    phases_dir,     \* .planning/phases: whether it exists, and its children
    pending_dir,    \* todos/pending: the file stems in glob order, or Missing
    done_dir,       \* todos/done: the file stems in glob order, or Missing
    call,           \* the operation that ran last
    arg,            \* its argument (a line or a document), where it has one
    ret,            \* its result
    planning_exists,\* whether the .planning directory exists
    phase,          \* the application: constructed, mounting, mounted, unmounted
    observer,       \* self.observer: none, created, started, stopped
    auto_refresh,   \* the reactive attribute auto_refresh
    disk,           \* the version of the planning documents on disk
    events,         \* the file events that the observer has yet to dispatch
    posted,         \* a callback of call_from_thread waits for the UI thread
    pc,             \* where each thread is in on_any_event or in a refresh
    origin,         \* what started the refresh that a thread is running
    fetched,         \* the version that the thread's get_all_data returned
    raised,         \* an exception was raised in the thread's refresh
    views,          \* the version that each view shows
    last_good,      \* the version of the last refresh without an exception
    refresh_error,  \* the refresh showed the "Refresh error" notification
    expand_index    \* RoadmapView._expand_index

\* the planning directory
fs == <<project_md, roadmap_md, state_md, phases_dir, pending_dir, done_dir>>

\* the dashboard application
app == <<planning_exists, phase, observer, auto_refresh, disk, events, posted,
         pc, origin, fetched, raised, views, last_good, refresh_error, expand_index>>

vars == <<fs, call, arg, ret, app>>

(***************************************************************************)
(* Python values                                                           *)
(***************************************************************************)
\* None where a dict is expected
None == [none |-> TRUE]
\* the content of a path that does not exist
Missing == <<"Missing">>
\* no argument
NoArg == <<>>

\* a directory that does not exist, and one that holds the given children
NoDir == [exists |-> FALSE, children |-> <<>>]

Dir(children) == [exists |-> TRUE, children |-> children]

\* dict.get(key, default)
Get(d, key, default) == IF key \in DOMAIN d THEN d[key] ELSE default

EmptyDict == [k \in {} |-> 0]

(***************************************************************************)
(* Characters and str methods                                              *)
(***************************************************************************)
Uppers == <<"A","B","C","D","E","F","G","H","I","J","K","L","M",
            "N","O","P","Q","R","S","T","U","V","W","X","Y","Z">>
Lowers == <<"a","b","c","d","e","f","g","h","i","j","k","l","m",
            "n","o","p","q","r","s","t","u","v","w","x","y","z">>
DigitChars == <<"0","1","2","3","4","5","6","7","8","9">>

Range(f) == {f[k] : k \in DOMAIN f}

Letters == Range(Uppers) \cup Range(Lowers)
Digits == Range(DigitChars)
\* str.isspace for the characters of the model
Whitespace == {" ", "\t", "\n", "\r", "\f"}

LowerChar(c) ==
    IF c \in Range(Uppers)
    THEN Lowers[CHOOSE k \in 1..26 : Uppers[k] = c]
    ELSE c

UpperChar(c) ==
    IF c \in Range(Lowers)
    THEN Uppers[CHOOSE k \in 1..26 : Lowers[k] = c]
    ELSE c

\* str.lower()
Lower(s) == [k \in 1..Len(s) |-> LowerChar(s[k])]

\* str.capitalize(): first character upper-cased, the rest lower-cased
Capitalize(s) ==
    [k \in 1..Len(s) |-> IF k = 1 THEN UpperChar(s[k]) ELSE LowerChar(s[k])]

\* s[i:] with a 0-based Python index
From(s, i) == SubSeq(s, i + 1, Len(s))

\* str.startswith(p)
StartsWith(s, p) == Len(s) >= Len(p) /\ SubSeq(s, 1, Len(p)) = p

\* str.endswith(p)
EndsWith(s, p) == Len(s) >= Len(p) /\ SubSeq(s, Len(s) - Len(p) + 1, Len(s)) = p

\* p in s
Contains(s, p) ==
    \E i \in 1..(Len(s) - Len(p) + 1) : SubSeq(s, i, i + Len(p) - 1) = p

\* str.strip()
Strip(s) ==
    LET keep == {k \in 1..Len(s) : s[k] \notin Whitespace}
    IN  IF keep = {} THEN <<>>
        ELSE LET lo == CHOOSE k \in keep : \A j \in keep : k <= j
                 hi == CHOOSE k \in keep : \A j \in keep : k >= j
             IN  SubSeq(s, lo, hi)

\* str.split(sep) for a one-character separator
RECURSIVE Split(_, _)
Split(s, sep) ==
    IF \A k \in 1..Len(s) : s[k] # sep THEN <<s>>
    ELSE LET p == CHOOSE k \in 1..Len(s) :
                      s[k] = sep /\ \A j \in 1..(k - 1) : s[j] # sep
         IN  <<SubSeq(s, 1, p - 1)>> \o Split(SubSeq(s, p + 1, Len(s)), sep)

\* str.splitlines(): no empty last line after a final line break
SplitLines(s) ==
    IF s = <<>> THEN <<>>
    ELSE LET parts == Split(s, "\n")
         IN  IF parts[Len(parts)] = <<>>
             THEN SubSeq(parts, 1, Len(parts) - 1)
             ELSE parts

\* "\n".join(lines)
RECURSIVE JoinLines(_)
JoinLines(lines) ==
    IF lines = <<>> THEN <<>>
    ELSE IF Len(lines) = 1 THEN lines[1]
    ELSE lines[1] \o <<"\n">> \o JoinLines(Tail(lines))

\* str.replace(a, b) for one-character a and b
ReplaceChar(s, a, b) == [k \in 1..Len(s) |-> IF s[k] = a THEN b ELSE s[k]]

\* int(s) for a string of decimal digits
DigitValue(c) == (CHOOSE k \in 1..10 : DigitChars[k] = c) - 1

RECURSIVE ToInt(_)
ToInt(s) ==
    IF s = <<>> THEN 0
    ELSE 10 * ToInt(SubSeq(s, 1, Len(s) - 1)) + DigitValue(s[Len(s)])

(***************************************************************************)
(* Order of strings                                                        *)
(***************************************************************************)
\* the characters from U+0020 to U+007E in the order of their code points
\* (U+0060 by its name)
AsciiOrder ==
    <<
      " ","!","\"","#","$","%","&","'","(",")","*","+",",","-",".","/",
      "0","1","2","3","4","5","6","7","8","9",":",";","<","=",">","?",
      "@","A","B","C","D","E","F","G","H","I","J","K","L","M","N","O",
      "P","Q","R","S","T","U","V","W","X","Y","Z","[","\\","]","^","_",
      "backtick","a","b","c","d","e","f","g","h","i","j","k","l","m","n","o",
      "p","q","r","s","t","u","v","w","x","y","z","{","|","}","~">>

\* ord(c)
CodePoint(c) ==
    CASE c = "\t" -> 9
      [] c = "\n" -> 10
      [] c = "\f" -> 12
      [] c = "\r" -> 13
      [] c = "endash" -> 8211
      [] c = "emdash" -> 8212
      [] c = "block" -> 9608
      [] c = "shade" -> 9617
      [] c = "mediumshade" -> 9618
      [] c = "darkshade" -> 9619
      [] c = "check" -> 10003
      [] OTHER -> 31 + (CHOOSE k \in 1..Len(AsciiOrder) : AsciiOrder[k] = c)

\* a < b for two strings
TextLess(a, b) ==
    \E k \in 1..(Len(b)) :
        /\ \A j \in 1..(k - 1) : j <= Len(a) /\ a[j] = b[j]
        /\ k > Len(a) \/ CodePoint(a[k]) < CodePoint(b[k])

\* list.sort(key=...) and sorted(): the elements of seq in the ascending
\* order of their keys, elements of equal keys in their order in seq
SortByKeys(seq, keys) ==
    LET rank(i) == Cardinality({j \in 1..Len(seq) :
                       \/ TextLess(keys[j], keys[i])
                       \/ keys[j] = keys[i] /\ j <= i})
    IN  [r \in 1..Len(seq) |-> seq[CHOOSE i \in 1..Len(seq) : rank(i) = r]]

(***************************************************************************)
(* Regular expressions (module re)                                         *)
(***************************************************************************)
\* character classes
Only(S) == [neg |-> FALSE, set |-> S]
Except(S) == [neg |-> TRUE, set |-> S]
InClass(c, cls) == (c \in cls.set) # cls.neg

ClsDot == Except({"\n"})                        \* .
ClsSpace == Only(Whitespace)                    \* \s
ClsDigit == Only(Digits)                        \* \d
ClsWord == Only(Letters \cup Digits \cup {"_"}) \* \w

\* items: hi = -1 is "no upper limit"
One(cls) == [kind |-> "set", cls |-> cls, lo |-> 1, hi |-> 1, lazy |-> FALSE]
Opt(cls) == [kind |-> "set", cls |-> cls, lo |-> 0, hi |-> 1, lazy |-> FALSE]
Star(cls) == [kind |-> "set", cls |-> cls, lo |-> 0, hi |-> -1, lazy |-> FALSE]
Plus(cls) == [kind |-> "set", cls |-> cls, lo |-> 1, hi |-> -1, lazy |-> FALSE]
LazyStar(cls) == [kind |-> "set", cls |-> cls, lo |-> 0, hi |-> -1, lazy |-> TRUE]
LazyPlus(cls) == [kind |-> "set", cls |-> cls, lo |-> 1, hi |-> -1, lazy |-> TRUE]
Exactly(cls, n) == [kind |-> "set", cls |-> cls, lo |-> n, hi |-> n, lazy |-> FALSE]
Open(g) == [kind |-> "open", g |-> g]           \* (?P<g>  or  (
Close(g) == [kind |-> "close", g |-> g]         \* )
OptGroup(sub) == [kind |-> "opt", sub |-> sub]  \* (?:sub)?
Alt(a, b) == [kind |-> "alt", a |-> a, b |-> b] \* (?:a|b)
Bos == [kind |-> "bos"]                         \* ^
Eos == [kind |-> "eos"]                         \* $
\* literal text; under re.IGNORECASE with fold = TRUE
Lit(str) == <<[kind |-> "lit", str |-> str, fold |-> FALSE]>>
LitI(str) == <<[kind |-> "lit", str |-> str, fold |-> TRUE]>>

\* the literal of item it is at position i of s
LitAt(it, s, i) ==
    /\ i + Len(it.str) - 1 <= Len(s)
    /\ IF it.fold
       THEN Lower(SubSeq(s, i, i + Len(it.str) - 1)) = Lower(it.str)
       ELSE SubSeq(s, i, i + Len(it.str) - 1) = it.str

NoMatch == [ok |-> FALSE, start |-> 0, end |-> 0, caps |-> EmptyDict]

\* the number of consecutive characters of cls from position i, at most hi
RECURSIVE RunLen(_, _, _, _)
RunLen(cls, s, i, hi) ==
    IF hi = 0 \/ i > Len(s) \/ ~InClass(s[i], cls) THEN 0
    ELSE 1 + RunLen(cls, s, i + 1, IF hi = -1 THEN -1 ELSE hi - 1)

\* The backtracking matcher: items against s from position i (1-based);
\* the result is the first match in Python's order of preference.
RECURSIVE MatchSeq(_, _, _, _, _)
RECURSIVE TryCount(_, _, _, _, _, _, _, _)
MatchSeq(items, s, i, st, caps) ==
    IF items = <<>> THEN [ok |-> TRUE, start |-> st, end |-> i, caps |-> caps]
    ELSE
    LET it == Head(items)
        rest == Tail(items)
    IN  CASE it.kind = "lit" ->
               IF LitAt(it, s, i)
               THEN MatchSeq(rest, s, i + Len(it.str), st, caps)
               ELSE NoMatch
          [] it.kind = "set" ->
               LET n == RunLen(it.cls, s, i, it.hi)
               IN  IF n < it.lo THEN NoMatch
                   ELSE IF it.lazy
                        THEN TryCount(rest, s, i, st, caps, it.lo, n, 1)
                        ELSE TryCount(rest, s, i, st, caps, n, it.lo, -1)
          [] it.kind = "open" ->
               MatchSeq(rest, s, i, st, (it.g :> <<i, i>>) @@ caps)
          [] it.kind = "close" ->
               MatchSeq(rest, s, i, st, (it.g :> <<caps[it.g][1], i>>) @@ caps)
          [] it.kind = "opt" ->
               LET with == MatchSeq(it.sub \o rest, s, i, st, caps)
               IN  IF with.ok THEN with ELSE MatchSeq(rest, s, i, st, caps)
          [] it.kind = "alt" ->
               LET first == MatchSeq(it.a \o rest, s, i, st, caps)
               IN  IF first.ok THEN first ELSE MatchSeq(it.b \o rest, s, i, st, caps)
          [] it.kind = "bos" ->
               IF i = 1 THEN MatchSeq(rest, s, i, st, caps) ELSE NoMatch
          [] it.kind = "eos" ->
               IF i = Len(s) + 1 \/ (i = Len(s) /\ s[i] = "\n")
               THEN MatchSeq(rest, s, i, st, caps)
               ELSE NoMatch

\* repetition counts j, j + step, ..., stop, in that order
TryCount(rest, s, i, st, caps, j, stop, step) ==
    LET r == MatchSeq(rest, s, i + j, st, caps)
    IN  IF r.ok THEN r
        ELSE IF j = stop THEN NoMatch
        ELSE TryCount(rest, s, i, st, caps, j + step, stop, step)

\* re.match(items, s)
ReMatch(items, s) == MatchSeq(items, s, 1, 1, EmptyDict)

\* re.search(items, s): the match at the leftmost position that has one
ReSearch(items, s) ==
    LET starts == {i \in 1..(Len(s) + 1) : MatchSeq(items, s, i, i, EmptyDict).ok}
    IN  IF starts = {} THEN NoMatch
        ELSE LET i == CHOOSE k \in starts : \A j \in starts : k <= j
             IN  MatchSeq(items, s, i, i, EmptyDict)

\* re.sub(pat, repl, s) for a literal pattern
RECURSIVE ReSubLit(_, _, _)
ReSubLit(pat, repl, s) ==
    IF ~Contains(s, pat) THEN s
    ELSE LET i == CHOOSE k \in 1..Len(s) :
                      /\ SubSeq(s, k, k + Len(pat) - 1) = pat
                      /\ \A j \in 1..(k - 1) : SubSeq(s, j, j + Len(pat) - 1) # pat
         IN  SubSeq(s, 1, i - 1) \o repl
             \o ReSubLit(pat, repl, SubSeq(s, i + Len(pat), Len(s)))

\* match.group(g) or "": the empty string for a group that took no part
Group(m, s, g) ==
    IF g \in DOMAIN m.caps
    THEN SubSeq(s, m.caps[g][1], m.caps[g][2] - 1)
    ELSE <<>>

(***************************************************************************)
(* Literal text of the source                                              *)
(***************************************************************************)
S_Phase == <<"P","h","a","s","e">>
S_Phases == <<"P","h","a","s","e","s">>
S_phase == <<"p","h","a","s","e">>
S_SHIPPED == <<"S","H","I","P","P","E","D">>
S_complete == <<"c","o","m","p","l","e","t","e">>
S_shipped == <<"s","h","i","p","p","e","d">>
S_progress == <<"p","r","o","g","r","e","s","s">>
S_active == <<"a","c","t","i","v","e">>
S_PhaseColon == <<"P","h","a","s","e",":">>
S_BoldPhase == <<"*","*","P","h","a","s","e",":","*","*">>
S_of == <<"o","f">>
S_Not == <<"N","o","t">>
S_started == <<"s","t","a","r","t","e","d">>
S_Not_started == <<"N","o","t"," ","s","t","a","r","t","e","d">>
S_not_started == <<"n","o","t","_","s","t","a","r","t","e","d">>
S_ProgressColon == <<"P","r","o","g","r","e","s","s",":">>
S_LastActivity == <<"L","a","s","t"," ","a","c","t","i","v","i","t","y",":">>
S_AverageDuration ==
    <<"A","v","e","r","a","g","e"," ","d","u","r","a","t","i","o","n",":">>
S_StatusColon == <<"S","t","a","t","u","s",":">>
S_PendingTodos ==
    <<"#","#","#"," ","P","e","n","d","i","n","g"," ","T","o","d","o","s">>
S_BlockersConcerns ==
    <<"#","#","#"," ","B","l","o","c","k","e","r","s","/","C","o","n","c","e",
      "r","n","s">>
S_H3 == <<"#","#","#"," ">>
S_Unchecked == <<"-"," ","["," ","]"," ">>
S_Bullet == <<"-"," ">>
S_none == <<"n","o","n","e",".">>

(***************************************************************************)
(* Roadmap extraction                                                      *)
(***************************************************************************)
\* status_map without the key "X"
CheckboxStatusLowerOnly(status_char) ==
    CASE status_char = <<"x">> -> "completed"
      [] status_char = <<"/">> -> "in_progress"
      [] OTHER -> "pending"

\* the checkbox pattern with a greedy name, (?P<name>Phase\s+[\d\.]+:.*)
CheckboxReGreedy ==
    Lit(<<"-", " ", "[">>)
    \o <<Open("status"), One(ClsDot), Close("status")>>
    \o Lit(<<"]">>) \o <<Star(ClsSpace)>> \o Lit(<<"*", "*">>)
    \o <<Open("name")>> \o Lit(S_Phase)
    \o <<Plus(ClsSpace), Plus(Only(Digits \cup {"."}))>> \o Lit(<<":">>)
    \o <<Star(ClsDot), Close("name")>>
    \o Lit(<<"*", "*">>)
    \o <<OptGroup(<<Star(ClsSpace)>> \o Lit(<<"-">>)
                  \o <<Star(ClsSpace), Open("desc"), Star(ClsDot), Close("desc")>>),
         Eos>>

\* - \[(?P<status>.)\]\s*\*\*(?P<name>Phase\s+[\d\.]+:.*?)\*\*
\*     (?:\s*-\s*(?P<desc>.*))?$
CheckboxRe ==
    Lit(<<"-", " ", "[">>)
    \o <<Open("status"), One(ClsDot), Close("status")>>
    \o Lit(<<"]">>) \o <<Star(ClsSpace)>> \o Lit(<<"*", "*">>)
    \o <<Open("name")>> \o Lit(S_Phase)
    \o <<Plus(ClsSpace), Plus(Only(Digits \cup {"."}))>> \o Lit(<<":">>)
    \o <<LazyStar(ClsDot), Close("name")>>
    \o Lit(<<"*", "*">>)
    \o <<OptGroup(<<Star(ClsSpace)>> \o Lit(<<"-">>)
                  \o <<Star(ClsSpace), Open("desc"), Star(ClsDot), Close("desc")>>),
         Eos>>

\* status_map.get(status_char, "pending")
CheckboxStatus(status_char) ==
    CASE status_char = <<"x">> -> "completed"
      [] status_char = <<"X">> -> "completed"
      [] status_char = <<"/">> -> "in_progress"
      [] status_char = <<" ">> -> "pending"
      [] OTHER -> "pending"

_parse_checkbox_phase(line) ==
    LET s == Strip(line)
        m == ReMatch(CheckboxRe, s)
    IN  IF ~m.ok THEN None
        ELSE LET desc == Group(m, s, "desc")
             IN  [name |-> Group(m, s, "name"),
                  description |-> Strip(desc),
                  status |-> CheckboxStatus(Group(m, s, "status"))]

\* (\d+)[\.\s]*[-(endash)(emdash)]\s*(.*)
TableDashRe ==
    <<Open("1"), Plus(ClsDigit), Close("1"),
      Star(Only({"."} \cup Whitespace)),
      One(Only({"-", "endash", "emdash"})),
      Star(ClsSpace), Open("2"), Star(ClsDot), Close("2")>>

\* (\d+)\.\s*(.*)
TableDotRe ==
    <<Open("1"), Plus(ClsDigit), Close("1")>> \o Lit(<<".">>)
    \o <<Star(ClsSpace), Open("2"), Star(ClsDot), Close("2")>>

NonEmpty(p) == p # <<>>

\* [p.strip() for p in stripped.split("|") if p.strip()]
TableParts(stripped) ==
    LET raw == Split(stripped, "|")
    IN  SelectSeq([k \in 1..Len(raw) |-> Strip(raw[k])], NonEmpty)

\* the completed test of one cell
CellCompleted(part) ==
    \/ Contains(Lower(part), S_complete)
    \/ Contains(Lower(part), S_shipped)
    \/ Contains(part, <<"check">>)

\* the in_progress test of one cell
CellInProgress(part) ==
    \/ Contains(Lower(part), S_progress)
    \/ Contains(Lower(part), S_active)

\* for part in parts[1:]: the first cell that passes either test decides
RECURSIVE TableStatus(_, _)
TableStatus(parts, k) ==
    IF k > Len(parts) THEN "pending"
    ELSE IF CellCompleted(parts[k]) THEN "completed"
    ELSE IF CellInProgress(parts[k]) THEN "in_progress"
    ELSE TableStatus(parts, k + 1)

\* _parse_table_phase without the test of the header row
_parse_table_phase_with_header(line) ==
    LET stripped == Strip(line)
        parts == TableParts(stripped)
    IN  IF ~StartsWith(stripped, <<"|">>) THEN None
        ELSE IF Len(parts) < 3 THEN None
        ELSE IF StartsWith(parts[1], <<"-">>) THEN None
        ELSE LET m1 == ReMatch(TableDashRe, parts[1])
                 phase_match == IF m1.ok THEN m1 ELSE ReMatch(TableDotRe, parts[1])
             IN  IF ~phase_match.ok THEN None
                 ELSE [name |-> S_Phase \o <<" ">> \o Group(phase_match, parts[1], "1")
                                \o <<":", " ">>
                                \o Strip(Group(phase_match, parts[1], "2")),
                       description |-> <<>>,
                       status |-> TableStatus(parts, 2)]

_parse_table_phase(line) ==
    LET stripped == Strip(line)
        parts == TableParts(stripped)
    IN  IF ~StartsWith(stripped, <<"|">>) THEN None
        ELSE IF Len(parts) < 3 THEN None
        ELSE IF Contains(Lower(parts[1]), S_phase) \/ StartsWith(parts[1], <<"-">>)
             THEN None
        ELSE LET m1 == ReMatch(TableDashRe, parts[1])
                 phase_match == IF m1.ok THEN m1 ELSE ReMatch(TableDotRe, parts[1])
             IN  IF ~phase_match.ok THEN None
                 ELSE [name |-> S_Phase \o <<" ">> \o Group(phase_match, parts[1], "1")
                                \o <<":", " ">>
                                \o Strip(Group(phase_match, parts[1], "2")),
                       description |-> <<>>,
                       status |-> TableStatus(parts, 2)]

\* - SHIPPED\s+\*\*(?P<version>v[\d\.]+)\s+(?P<name>.*?)\*\*\s*[(emdash)\-]\s*
\*     Phases?\s*(?P<phases>[\d\-,\s]+)
ShippedRe ==
    Lit(<<"-", " ">>) \o Lit(S_SHIPPED) \o <<Plus(ClsSpace)>> \o Lit(<<"*", "*">>)
    \o <<Open("version")>> \o Lit(<<"v">>)
    \o <<Plus(Only(Digits \cup {"."})), Close("version"), Plus(ClsSpace),
         Open("name"), LazyStar(ClsDot), Close("name")>>
    \o Lit(<<"*", "*">>)
    \o <<Star(ClsSpace), One(Only({"emdash", "-"})), Star(ClsSpace)>>
    \o Lit(S_Phase) \o <<Opt(Only({"s"})), Star(ClsSpace),
         Open("phases"), Plus(Only(Digits \cup {"-", ","} \cup Whitespace)),
         Close("phases")>>

\* _parse_shipped_line with the status of a completed phase
_parse_shipped_line_completed(line) ==
    LET s == Strip(line)
        m == ReMatch(ShippedRe, s)
    IN  IF ~m.ok THEN None
        ELSE LET version == Group(m, s, "version")
                 name == Strip(Group(m, s, "name"))
                 phases == Strip(Group(m, s, "phases"))
             IN  [name |-> version \o <<" ">> \o name,
                  description |-> S_Phases \o <<" ">> \o phases,
                  status |-> "completed",
                  version |-> version,
                  phases |-> phases]

_parse_shipped_line(line) ==
    LET s == Strip(line)
        m == ReMatch(ShippedRe, s)
    IN  IF ~m.ok THEN None
        ELSE LET version == Group(m, s, "version")
                 name == Strip(Group(m, s, "name"))
                 phases == Strip(Group(m, s, "phases"))
             IN  [name |-> version \o <<" ">> \o name,
                  description |-> S_Phases \o <<" ">> \o phases,
                  status |-> "shipped",
                  version |-> version,
                  phases |-> phases]

\* RoadmapLine with the new phase put in front of the list
RoadmapLinePrepend(phases, line) ==
    LET stripped == Strip(line)
    IN  IF _parse_checkbox_phase(stripped) # None
        THEN <<_parse_checkbox_phase(stripped)>> \o phases
        ELSE IF _parse_shipped_line(stripped) # None
        THEN <<_parse_shipped_line(stripped)>> \o phases
        ELSE IF _parse_table_phase(stripped) # None
        THEN <<_parse_table_phase(stripped)>> \o phases
        ELSE phases

\* One pass of the loop over the lines: checkbox, then shipped, then table.
RoadmapLine(phases, line) ==
    LET stripped == Strip(line)
    IN  IF _parse_checkbox_phase(stripped) # None
        THEN Append(phases, _parse_checkbox_phase(stripped))
        ELSE IF _parse_shipped_line(stripped) # None
        THEN Append(phases, _parse_shipped_line(stripped))
        ELSE IF _parse_table_phase(stripped) # None
        THEN Append(phases, _parse_table_phase(stripped))
        ELSE phases

RECURSIVE RoadmapLoop(_, _, _)
RoadmapLoop(lines, k, phases) ==
    IF k > Len(lines) THEN phases
    ELSE RoadmapLoop(lines, k + 1, RoadmapLine(phases, lines[k]))

\* parse_roadmap()["phases"] with ROADMAP.md holding content
parse_roadmap(content) ==
    IF content = Missing THEN <<>>
    ELSE RoadmapLoop(SplitLines(content), 1, <<>>)

\* FirstNotCompleted with shipped phases passed over as well
RECURSIVE FirstNotDone(_, _)
FirstNotDone(phases, k) ==
    IF k > Len(phases) THEN None
    ELSE IF phases[k].status \notin {"completed", "shipped"} THEN phases[k]
    ELSE FirstNotDone(phases, k + 1)

RECURSIVE FirstNotCompleted(_, _)
FirstNotCompleted(phases, k) ==
    IF k > Len(phases) THEN None
    ELSE IF phases[k].status # "completed" THEN phases[k]
    ELSE FirstNotCompleted(phases, k + 1)

infer_active_phase_from_roadmap(content) ==
    FirstNotCompleted(parse_roadmap(content), 1)

(***************************************************************************)
(* State document extraction                                               *)
(***************************************************************************)
\* Phase:\s*(\d+)\s+of\s+(\d+)\s*\(([^)]+)\)
PhaseRe1 ==
    Lit(S_PhaseColon)
    \o <<Star(ClsSpace), Open("1"), Plus(ClsDigit), Close("1"), Plus(ClsSpace)>>
    \o Lit(S_of)
    \o <<Plus(ClsSpace), Open("2"), Plus(ClsDigit), Close("2"), Star(ClsSpace)>>
    \o Lit(<<"(">>) \o <<Open("3"), Plus(Except({")"})), Close("3")>>
    \o Lit(<<")">>)

\* Phase:\s*(v[\d\.]+)\s+complete\s*[(emdash)\-]\s*(\d+)\s+of\s+(\d+)\s+
\*     phases?\s+shipped
PhaseRe2 ==
    Lit(S_PhaseColon) \o <<Star(ClsSpace), Open("1")>> \o Lit(<<"v">>)
    \o <<Plus(Only(Digits \cup {"."})), Close("1"), Plus(ClsSpace)>>
    \o Lit(S_complete)
    \o <<Star(ClsSpace), One(Only({"emdash", "-"})), Star(ClsSpace),
         Open("2"), Plus(ClsDigit), Close("2"), Plus(ClsSpace)>>
    \o Lit(S_of)
    \o <<Plus(ClsSpace), Open("3"), Plus(ClsDigit), Close("3"), Plus(ClsSpace)>>
    \o Lit(S_phase) \o <<Opt(Only({"s"})), Plus(ClsSpace)>> \o Lit(S_shipped)

\* Phase:\s*Not\s+started  with re.IGNORECASE
PhaseRe3 ==
    LitI(S_PhaseColon) \o <<Star(ClsSpace)>> \o LitI(S_Not)
    \o <<Plus(ClsSpace)>> \o LitI(S_started)

\* Phase:\s*(\d+)\s*[-(endash)(emdash)]\s*(.+?)(?:\n|$)
PhaseRe4 ==
    Lit(S_PhaseColon)
    \o <<Star(ClsSpace), Open("1"), Plus(ClsDigit), Close("1"), Star(ClsSpace),
         One(Only({"-", "endash", "emdash"})), Star(ClsSpace),
         Open("2"), LazyPlus(ClsDot), Close("2"),
         Alt(Lit(<<"\n">>), <<Eos>>)>>

\* Phase:\s*(.+?)(?:\n|$)
PhaseRe5 ==
    Lit(S_PhaseColon)
    \o <<Star(ClsSpace), Open("1"), LazyPlus(ClsDot), Close("1"),
         Alt(Lit(<<"\n">>), <<Eos>>)>>

\* re.sub(r'\*\*Phase:\*\*', 'Phase:', content)
Normalized(content) == ReSubLit(S_BoldPhase, S_PhaseColon, content)

\* the dict that format 1 builds
PhaseFormat1(m, n) ==
    [phase_number |-> ToInt(Group(m, n, "1")),
     total_phases |-> ToInt(Group(m, n, "2")),
     phase_name |-> Group(m, n, "3"),
     current_phase |-> Group(m, n, "1") \o <<" ">> \o S_of \o <<" ">>
                       \o Group(m, n, "2") \o <<" ", "(">> \o Group(m, n, "3")
                       \o <<")">>]

PhaseFormat2(m, n) ==
    [milestone_version |-> Group(m, n, "1"),
     phases_shipped |-> ToInt(Group(m, n, "2")),
     total_phases |-> ToInt(Group(m, n, "3")),
     current_phase |-> Group(m, n, "1") \o <<" ">> \o S_complete,
     milestone_complete |-> TRUE]

PhaseFormat3 ==
    [current_phase |-> S_Not_started, phase_status |-> S_not_started]

PhaseFormat4(m, n) ==
    [phase_number |-> ToInt(Group(m, n, "1")),
     phase_name |-> Strip(Group(m, n, "2")),
     current_phase |-> Group(m, n, "1") \o <<" ", "(">>
                       \o Strip(Group(m, n, "2")) \o <<")">>]

PhaseFormat5(m, n) == [current_phase |-> Strip(Group(m, n, "1"))]

\* _parse_state_phase with the return after format 2 left out, so that the
\* later formats add their fields to the result
_parse_state_phase_no_return(content) ==
    LET n == Normalized(content)
        m1 == ReSearch(PhaseRe1, n)
        m2 == ReSearch(PhaseRe2, n)
        m3 == ReSearch(PhaseRe3, n)
        m4 == ReSearch(PhaseRe4, n)
        m5 == ReSearch(PhaseRe5, n)
        after2 == IF m3.ok THEN PhaseFormat3
                  ELSE IF m4.ok THEN PhaseFormat4(m4, n)
                  ELSE IF m5.ok THEN PhaseFormat5(m5, n)
                  ELSE EmptyDict
    IN  IF m1.ok THEN PhaseFormat1(m1, n)
        ELSE IF m2.ok THEN after2 @@ PhaseFormat2(m2, n)
        ELSE after2

_parse_state_phase(content) ==
    LET n == Normalized(content)
        m1 == ReSearch(PhaseRe1, n)
        m2 == ReSearch(PhaseRe2, n)
        m3 == ReSearch(PhaseRe3, n)
        m4 == ReSearch(PhaseRe4, n)
        m5 == ReSearch(PhaseRe5, n)
    IN  IF m1.ok THEN PhaseFormat1(m1, n)
        ELSE IF m2.ok THEN PhaseFormat2(m2, n)
        ELSE IF m3.ok THEN PhaseFormat3
        ELSE IF m4.ok THEN PhaseFormat4(m4, n)
        ELSE IF m5.ok THEN PhaseFormat5(m5, n)
        ELSE EmptyDict

\* Progress:\s*\[.*?\]\s*(\d+)%
ProgressRe1 ==
    Lit(S_ProgressColon) \o <<Star(ClsSpace)>> \o Lit(<<"[">>)
    \o <<LazyStar(ClsDot)>> \o Lit(<<"]">>)
    \o <<Star(ClsSpace), Open("1"), Plus(ClsDigit), Close("1")>> \o Lit(<<"%">>)

\* (\d+)%\s*\(\d+/\d+\s+[\w\s]+?\)
ProgressRe2 ==
    <<Open("1"), Plus(ClsDigit), Close("1")>> \o Lit(<<"%">>)
    \o <<Star(ClsSpace)>> \o Lit(<<"(">>) \o <<Plus(ClsDigit)>> \o Lit(<<"/">>)
    \o <<Plus(ClsDigit), Plus(ClsSpace),
         LazyPlus(Only(Letters \cup Digits \cup {"_"} \cup Whitespace))>>
    \o Lit(<<")">>)

\* Progress:.*?(\d+)%
ProgressRe3 ==
    Lit(S_ProgressColon)
    \o <<LazyStar(ClsDot), Open("1"), Plus(ClsDigit), Close("1")>> \o Lit(<<"%">>)

\* \[[(block)(shade)(medium shade)(dark shade) ]+\]\s*(\d+)%
ProgressRe4 ==
    Lit(<<"[">>)
    \o <<Plus(Only({"block", "shade", "mediumshade", "darkshade", " "}))>>
    \o Lit(<<"]">>)
    \o <<Star(ClsSpace), Open("1"), Plus(ClsDigit), Close("1")>> \o Lit(<<"%">>)

\* _parse_progress with the third format tried before the second
_parse_progress_3_before_2(content) ==
    LET m1 == ReSearch(ProgressRe1, content)
        m2 == ReSearch(ProgressRe2, content)
        m3 == ReSearch(ProgressRe3, content)
        m4 == ReSearch(ProgressRe4, content)
    IN  IF m1.ok THEN ToInt(Group(m1, content, "1"))
        ELSE IF m3.ok THEN ToInt(Group(m3, content, "1"))
        ELSE IF m2.ok THEN ToInt(Group(m2, content, "1"))
        ELSE IF m4.ok THEN ToInt(Group(m4, content, "1"))
        ELSE 0

_parse_progress(content) ==
    LET m1 == ReSearch(ProgressRe1, content)
        m2 == ReSearch(ProgressRe2, content)
        m3 == ReSearch(ProgressRe3, content)
        m4 == ReSearch(ProgressRe4, content)
    IN  IF m1.ok THEN ToInt(Group(m1, content, "1"))
        ELSE IF m2.ok THEN ToInt(Group(m2, content, "1"))
        ELSE IF m3.ok THEN ToInt(Group(m3, content, "1"))
        ELSE IF m4.ok THEN ToInt(Group(m4, content, "1"))
        ELSE 0

\* The loop of _parse_state_todos from line k on; in_section is the flag.
RECURSIVE StateTodosLoop(_, _, _, _)
StateTodosLoop(lines, k, in_section, todos) ==
    IF k > Len(lines) THEN todos
    ELSE LET stripped == Strip(lines[k])
             text == Strip(From(stripped, 6))
         IN  IF stripped = S_PendingTodos
             THEN StateTodosLoop(lines, k + 1, TRUE, todos)
             ELSE IF in_section /\ StartsWith(stripped, S_H3)
             THEN todos
             ELSE IF in_section /\ StartsWith(stripped, S_Unchecked) /\ text # <<>>
             THEN StateTodosLoop(lines, k + 1, in_section,
                                 Append(todos, [text |-> text, checked |-> FALSE]))
             ELSE StateTodosLoop(lines, k + 1, in_section, todos)

_parse_state_todos(content) == StateTodosLoop(SplitLines(content), 1, FALSE, <<>>)

\* The loop of _parse_state_concerns from line k on.
RECURSIVE StateConcernsLoop(_, _, _, _)
StateConcernsLoop(lines, k, in_section, concerns) ==
    IF k > Len(lines) THEN concerns
    ELSE LET stripped == Strip(lines[k])
             text == Strip(From(stripped, 2))
         IN  IF stripped = S_BlockersConcerns
             THEN StateConcernsLoop(lines, k + 1, TRUE, concerns)
             ELSE IF in_section /\ StartsWith(stripped, S_H3)
             THEN concerns
             ELSE IF /\ in_section
                     /\ StartsWith(stripped, S_Bullet)
                     /\ text # <<>>
                     /\ Lower(text) # S_none
             THEN StateConcernsLoop(lines, k + 1, in_section,
                                    Append(concerns, [text |-> text]))
             ELSE StateConcernsLoop(lines, k + 1, in_section, concerns)

_parse_state_concerns(content) ==
    StateConcernsLoop(SplitLines(content), 1, FALSE, <<>>)

\* Last activity:\s*(.*)
ActivityRe ==
    Lit(S_LastActivity) \o <<Star(ClsSpace), Open("1"), Star(ClsDot), Close("1")>>

\* Average duration:\s*(.*)
VelocityRe ==
    Lit(S_AverageDuration) \o <<Star(ClsSpace), Open("1"), Star(ClsDot), Close("1")>>

\* Status:\s*(.*)
StatusRe ==
    Lit(S_StatusColon) \o <<Star(ClsSpace), Open("1"), Star(ClsDot), Close("1")>>

\* data[key] = match.group(1).strip() if the search found a match
SetIfFound(data, key, items, content) ==
    LET m == ReSearch(items, content)
    IN  IF m.ok THEN (key :> Strip(Group(m, content, "1"))) @@ data ELSE data

\* the Status: line sets phase_status unless the phase parser has set it
SetStatus(data, content) ==
    IF "phase_status" \notin DOMAIN data
    THEN SetIfFound(data, "phase_status", StatusRe, content)
    ELSE data

\* parse_state() with STATE.md holding content; a key set later is written
\* to the left of @@, which gives it precedence
parse_state(content) ==
    IF content = Missing THEN EmptyDict
    ELSE [state_todos |-> _parse_state_todos(content),
          concerns |-> _parse_state_concerns(content)]
         @@ SetStatus(
              SetIfFound(
                SetIfFound(
                  [progress_percent |-> _parse_progress(content)]
                      @@ _parse_state_phase(content),
                  "last_activity", ActivityRe, content),
                "avg_duration", VelocityRe, content),
              content)

(***************************************************************************)
(* Todo collection                                                         *)
(***************************************************************************)
\* ^\d{4}-\d{2}-\d{2}-
DatePrefixRe ==
    <<Bos, Exactly(ClsDigit, 4)>> \o Lit(<<"-">>) \o <<Exactly(ClsDigit, 2)>>
    \o Lit(<<"-">>) \o <<Exactly(ClsDigit, 2)>> \o Lit(<<"-">>)

\* the display text of a todo file, from its stem
Prettify(stem) ==
    LET m == ReMatch(DatePrefixRe, stem)
        name == IF m.ok THEN SubSeq(stem, m.end, Len(stem)) ELSE stem
    IN  Capitalize(ReplaceChar(name, "-", " "))

\* the todos of the files of todos/pending, in glob order
FileTodos(dir) ==
    IF dir = <<Missing>> THEN <<>>
    ELSE [k \in 1..Len(dir) |-> [text |-> Prettify(dir[k]), checked |-> FALSE]]

\* MergeLoop with the texts compared as they are written
RECURSIVE MergeLoopCaseSensitive(_, _, _, _)
MergeLoopCaseSensitive(state_todos, k, todos, existing_texts) ==
    IF k > Len(state_todos) THEN todos
    ELSE IF state_todos[k].text \notin existing_texts
    THEN MergeLoopCaseSensitive(state_todos, k + 1, Append(todos, state_todos[k]),
                                existing_texts \cup {state_todos[k].text})
    ELSE MergeLoopCaseSensitive(state_todos, k + 1, todos, existing_texts)

\* the loop that merges the todos of STATE.md into the file todos
RECURSIVE MergeLoop(_, _, _, _)
MergeLoop(state_todos, k, todos, existing_texts) ==
    IF k > Len(state_todos) THEN todos
    ELSE IF Lower(state_todos[k].text) \notin existing_texts
    THEN MergeLoop(state_todos, k + 1, Append(todos, state_todos[k]),
                   existing_texts \cup {Lower(state_todos[k].text)})
    ELSE MergeLoop(state_todos, k + 1, todos, existing_texts)

\* parse_pending_todos() with todos/pending holding dir and STATE.md content
parse_pending_todos(dir, content) ==
    LET todos == FileTodos(dir)
        existing_texts == {Lower(todos[k].text) : k \in 1..Len(todos)}
        state == parse_state(content)
    IN  MergeLoop(Get(state, "state_todos", <<>>), 1, todos, existing_texts)

(***************************************************************************)
(* Phase directory resolution                                              *)
(***************************************************************************)
\* str.zfill(2) of a string of digits
Zfill2(s) == IF Len(s) >= 2 THEN s ELSE IF Len(s) = 1 THEN <<"0">> \o s ELSE <<"0", "0">>

\* ^(\d+)
LeadingDigitsRe == <<Bos, Open("1"), Plus(ClsDigit), Close("1")>>

\* Phase (\d+)
PhaseNumberRe == Lit(S_Phase \o <<" ">>) \o <<Open("1"), Plus(ClsDigit), Close("1")>>

\* match.group(1).zfill(2) where the pattern matched; <<>> stands for the
\* None that phase_num keeps otherwise, which "if not phase_num" does not
\* tell from the empty string
PaddedGroup(m, text) == IF m.ok THEN Zfill2(Group(m, text, "1")) ELSE <<>>

\* phase_num after the state has been looked at
PhaseNumFromState(state) ==
    IF "current_phase" \in DOMAIN state
    THEN PaddedGroup(ReSearch(LeadingDigitsRe, state.current_phase), state.current_phase)
    ELSE <<>>

\* phase_num from the phase that the roadmap infers to be active
PhaseNumFromRoadmap(active_phase) ==
    IF active_phase = None THEN <<>>
    ELSE PaddedGroup(ReSearch(PhaseNumberRe, active_phase.name), active_phase.name)

\* the roadmap is asked if the state gave no phase_num
OrFromRoadmap(phase_num, roadmap_content) ==
    IF phase_num # <<>> THEN phase_num
    ELSE PhaseNumFromRoadmap(infer_active_phase_from_roadmap(roadmap_content))

\* the state is asked if the roadmap gave no phase_num
OrFromState(phase_num, state_content) ==
    IF phase_num # <<>> THEN phase_num
    ELSE PhaseNumFromState(parse_state(state_content))

\* PhaseNum with the roadmap asked before the state
PhaseNumRoadmapFirst(state_content, roadmap_content) ==
    OrFromState(PhaseNumFromRoadmap(infer_active_phase_from_roadmap(roadmap_content)),
                state_content)

\* phase_num after both sources have been looked at
PhaseNum(state_content, roadmap_content) ==
    OrFromRoadmap(PhaseNumFromState(parse_state(state_content)), roadmap_content)

\* the loop over phases_dir.iterdir(): the first child that is a directory
\* and whose name starts with phase_num
FirstPhaseDir(children, phase_num) ==
    LET hits == {k \in 1..Len(children) :
                    children[k].is_dir /\ StartsWith(children[k].name, phase_num)}
    IN  IF hits = {} THEN None
        ELSE children[CHOOSE k \in hits : \A j \in hits : k <= j]

\* the part of get_phase_directory that follows the search for phase_num
PhaseDirOf(phase_num, phases) ==
    IF phase_num = <<>> THEN None
    ELSE IF ~phases.exists THEN None
    ELSE FirstPhaseDir(phases.children, phase_num)

\* get_phase_directory() on the planning directory given
get_phase_directory(state_content, roadmap_content, phases) ==
    PhaseDirOf(PhaseNum(state_content, roadmap_content), phases)

(***************************************************************************)
(* Project, completed todos, phase documents and the aggregate             *)
(***************************************************************************)
S_H3Active == <<"#","#","#"," ","A","c","t","i","v","e">>
S_Box == <<"-"," ","[">>
S_BoxChecked == <<"-"," ","[","x","]">>
S_CONTEXT == <<"C","O","N","T","E","X","T">>
S_RESEARCH == <<"R","E","S","E","A","R","C","H">>
S_VERIFICATION == <<"V","E","R","I","F","I","C","A","T","I","O","N">>
S_PLAN == <<"P","L","A","N">>
S_DotMd == <<".","m","d">>
S_DashSummaryMd == <<"-","S","U","M","M","A","R","Y",".","m","d">>

\* The loop of parse_project from line k on; in_active_section is the flag.
RECURSIVE ProjectLoop(_, _, _, _)
ProjectLoop(lines, k, in_active_section, active_tasks) ==
    IF k > Len(lines) THEN active_tasks
    ELSE LET line == Strip(lines[k])
         IN  IF StartsWith(line, S_H3Active)
             THEN ProjectLoop(lines, k + 1, TRUE, active_tasks)
             ELSE IF StartsWith(line, S_H3) /\ in_active_section
             THEN active_tasks
             ELSE IF in_active_section /\ StartsWith(line, S_Box)
             THEN ProjectLoop(lines, k + 1, in_active_section,
                      Append(active_tasks,
                             [text |-> Strip(From(line, 5)),
                              checked |-> StartsWith(line, S_BoxChecked)]))
             ELSE ProjectLoop(lines, k + 1, in_active_section, active_tasks)

\* parse_project returning an empty dict where PROJECT.md is missing
parse_project_no_default(content) ==
    IF content = Missing THEN EmptyDict
    ELSE [active_tasks |-> ProjectLoop(SplitLines(content), 1, FALSE, <<>>)]

\* parse_project() with PROJECT.md holding content
parse_project(content) ==
    IF content = Missing THEN [active_tasks |-> <<>>]
    ELSE [active_tasks |-> ProjectLoop(SplitLines(content), 1, FALSE, <<>>)]

\* parse_completed_todos without todos.sort: the todos in glob order
parse_completed_todos_unsorted(dir) ==
    IF dir = <<Missing>> THEN <<>>
    ELSE [k \in 1..Len(dir) |-> [text |-> Prettify(dir[k]), checked |-> TRUE]]

\* parse_completed_todos() with todos/done holding dir
parse_completed_todos(dir) ==
    IF dir = <<Missing>> THEN <<>>
    ELSE LET todos == [k \in 1..Len(dir) |-> [text |-> Prettify(dir[k]), checked |-> TRUE]]
         IN  SortByKeys(todos, [k \in 1..Len(todos) |-> todos[k].text])

\* dir.glob("*" + suffix): the files of dir whose name ends with suffix
Glob(files, suffix) == SelectSeq(files, LAMBDA f : EndsWith(f.name, suffix))

\* The loop of parse_phase_docs from file k on.
RECURSIVE PhaseDocsLoop(_, _, _)
PhaseDocsLoop(files, k, docs) ==
    IF k > Len(files) THEN docs
    ELSE LET file == files[k]
         IN  IF Contains(file.name, S_CONTEXT)
             THEN PhaseDocsLoop(files, k + 1, ("context" :> file.content) @@ docs)
             ELSE IF Contains(file.name, S_RESEARCH)
             THEN PhaseDocsLoop(files, k + 1, ("research" :> file.content) @@ docs)
             ELSE IF Contains(file.name, S_VERIFICATION)
             THEN PhaseDocsLoop(files, k + 1, ("verification" :> file.content) @@ docs)
             ELSE IF Contains(file.name, S_PLAN)
             THEN PhaseDocsLoop(files, k + 1,
                      ("plans" :> Append(Get(docs, "plans", <<>>),
                                         [name |-> file.name, content |-> file.content]))
                      @@ docs)
             ELSE PhaseDocsLoop(files, k + 1, docs)

\* parse_phase_docs without the sort of the plans
KeepPlans(docs) == docs

\* docs["plans"].sort(key=name) where there are plans
SortPlans(docs) ==
    IF "plans" \in DOMAIN docs
    THEN ("plans" :> SortByKeys(docs.plans,
                                [k \in 1..Len(docs.plans) |-> docs.plans[k].name]))
         @@ docs
    ELSE docs

\* parse_phase_docs() where get_phase_directory() returns phase_dir
parse_phase_docs(phase_dir) ==
    IF phase_dir = None THEN EmptyDict
    ELSE SortPlans(PhaseDocsLoop(Glob(phase_dir.files, S_DotMd), 1, EmptyDict))

\* an Optional[str] that is not None
Text(content) == [text |-> content]

\* get_latest_phase_summary() where get_phase_directory() returns phase_dir
get_latest_phase_summary(phase_dir) ==
    IF phase_dir = None THEN None
    ELSE LET found == Glob(phase_dir.files, S_DashSummaryMd)
             summary_files == SortByKeys(found, [k \in 1..Len(found) |-> found[k].name])
         IN  IF summary_files = <<>> THEN None
             ELSE Text(summary_files[Len(summary_files)].content)

\* get_all_data's dict with the first phase of the roadmap, whatever its
\* status, as the inferred active phase
AllDataFirstPhase(state, project, roadmap, state_content, phases, pending, done) ==
    [project |-> parse_project(project),
     roadmap |-> [phases |-> parse_roadmap(roadmap)],
     state |-> state,
     phase_docs |-> parse_phase_docs(get_phase_directory(state_content, roadmap, phases)),
     pending_todos |-> parse_pending_todos(pending, state_content),
     completed_todos |-> parse_completed_todos(done),
     concerns |-> Get(state, "concerns", <<>>),
     latest_summary |->
         get_latest_phase_summary(get_phase_directory(state_content, roadmap, phases)),
     inferred_active_phase |->
         IF parse_roadmap(roadmap) = <<>> THEN None ELSE Head(parse_roadmap(roadmap))]

\* the dict that get_all_data builds, state being the result of its call of
\* parse_state; parse_roadmap of this module is the list under "phases"
AllData(state, project, roadmap, state_content, phases, pending, done) ==
    [project |-> parse_project(project),
     roadmap |-> [phases |-> parse_roadmap(roadmap)],
     state |-> state,
     phase_docs |-> parse_phase_docs(get_phase_directory(state_content, roadmap, phases)),
     pending_todos |-> parse_pending_todos(pending, state_content),
     completed_todos |-> parse_completed_todos(done),
     concerns |-> Get(state, "concerns", <<>>),
     latest_summary |->
         get_latest_phase_summary(get_phase_directory(state_content, roadmap, phases)),
     inferred_active_phase |-> infer_active_phase_from_roadmap(roadmap)]

\* the keys of get_all_data's dict in the order in which their values are
\* computed: state before the dict literal, then the literal's entries
AllDataOrder ==
    <<"state", "project", "roadmap", "phase_docs", "pending_todos",
      "completed_todos", "concerns", "latest_summary", "inferred_active_phase">>

\* the value that get_all_data computes for key from the files as they are,
\* state being the result of its call of parse_state
AllDataPart(key, state, project, roadmap, state_content, phases, pending, done) ==
    CASE key = "state" -> parse_state(state_content)
      [] key = "project" -> parse_project(project)
      [] key = "roadmap" -> [phases |-> parse_roadmap(roadmap)]
      [] key = "phase_docs" ->
            parse_phase_docs(get_phase_directory(state_content, roadmap, phases))
      [] key = "pending_todos" -> parse_pending_todos(pending, state_content)
      [] key = "completed_todos" -> parse_completed_todos(done)
      [] key = "concerns" -> Get(state, "concerns", <<>>)
      [] key = "latest_summary" ->
            get_latest_phase_summary(get_phase_directory(state_content, roadmap, phases))
      [] key = "inferred_active_phase" -> infer_active_phase_from_roadmap(roadmap)

\* get_all_data() on the planning directory given
get_all_data(project, roadmap, state_content, phases, pending, done) ==
    AllData(parse_state(state_content), project, roadmap, state_content, phases,
            pending, done)

(***************************************************************************)
(* Bounds and input documents                                              *)
(***************************************************************************)
MaxRoadmapLines == 2
MaxCells == 3
MaxStateLines == 2
MaxSectionLines == 3
MaxTodoLines == 2
MaxFiles == 2
MaxPhaseDirs == 2
MaxDisk == 2
MaxEvents == 1
MaxProjectLines == 3
MaxDocFiles == 3

SeqsUpTo(S, n) == UNION {[1..k -> S] : k \in 0..n}

\* - [x] **Phase 1: Setup** - Init
RL_Done ==
    <<"-"," ","[","x","]"," ","*","*","P","h","a","s","e"," ","1",":"," ","S",
      "e","t","u","p","*","*"," ","-"," ","I","n","i","t">>
\* - [ ] **Phase 2: Build**
RL_Todo ==
    <<"-"," ","["," ","]"," ","*","*","P","h","a","s","e"," ","2",":"," ","B",
      "u","i","l","d","*","*">>
\*   - [/] **Phase 3: Test** - Run   (indented, with a trailing blank)
RL_Doing ==
    <<" "," ","-"," ","[","/","]"," ","*","*","P","h","a","s","e"," ","3",":",
      " ","T","e","s","t","*","*"," ","-"," ","R","u","n"," ">>
\* - SHIPPED **v1.0 Core** (emdash) Phases 1-2
RL_Shipped ==
    <<"-"," ","S","H","I","P","P","E","D"," ","*","*","v","1",".","0"," ","C",
      "o","r","e","*","*"," ","emdash"," ","P","h","a","s","e","s"," ","1",
      "-","2">>
\* | 1. Base | v1 | Complete |
RL_RowDone ==
    <<"|"," ","1","."," ","B","a","s","e"," ","|"," ","v","1"," ","|"," ","C",
      "o","m","p","l","e","t","e"," ","|">>
\* | 2 - Feat | Active | 1/2 |
RL_RowActive ==
    <<"|"," ","2"," ","-"," ","F","e","a","t"," ","|"," ","A","c","t","i","v",
      "e"," ","|"," ","1","/","2"," ","|">>
\* | 3. Docs | v1 | 0/2 |
RL_RowPlain ==
    <<"|"," ","3","."," ","D","o","c","s"," ","|"," ","v","1"," ","|"," ","0",
      "/","2"," ","|">>
\* | Phase | Ver | Status |
RL_Header ==
    <<"|"," ","P","h","a","s","e"," ","|"," ","V","e","r"," ","|"," ","S","t",
      "a","t","u","s"," ","|">>
\* |---|---|---|
RL_Rule == <<"|","-","-","-","|","-","-","-","|","-","-","-","|">>
\* ## Roadmap
RL_Heading == <<"#","#"," ","R","o","a","d","m","a","p">>

RoadmapLinePool ==
    {RL_Done, RL_Todo, RL_Doing, RL_Shipped, RL_RowDone, RL_RowActive,
     RL_RowPlain, RL_Header, RL_Rule, RL_Heading}

\* cells of a table row
TC_First == <<"1","."," ","B","a","s","e">>
TC_Complete == <<"C","o","m","p","l","e","t","e">>
TC_InProgress == <<"I","n"," ","P","r","o","g","r","e","s","s">>
TC_Active == <<"a","c","t","i","v","e">>
TC_Shipped == <<"S","H","I","P","P","E","D">>
TC_Check == <<"check"," ","o","k">>
TC_Version == <<"v","1">>
TC_Count == <<"3","/","3">>

TableCellPool ==
    {TC_Complete, TC_InProgress, TC_Active, TC_Shipped, TC_Check, TC_Version,
     TC_Count}

\* "| 1. Base | c1 | ... | cn |"
RECURSIVE TableRowTail(_)
TableRowTail(cells) ==
    IF cells = <<>> THEN <<>>
    ELSE <<" ">> \o Head(cells) \o <<" ", "|">> \o TableRowTail(Tail(cells))

TableRow(cells) == <<"|", " ">> \o TC_First \o <<" ", "|">> \o TableRowTail(cells)

TableRows ==
    {TableRow(cells) : cells \in UNION {[1..k -> TableCellPool] : k \in 1..MaxCells}}

RoadmapDocs ==
    {JoinLines(ls) : ls \in SeqsUpTo(RoadmapLinePool, MaxRoadmapLines)}
    \cup TableRows

\* lines of a state document that bear on the phase position
\* Phase: 5 of 7 (Core)
SP_OfTotal ==
    <<"P","h","a","s","e",":"," ","5"," ","o","f"," ","7"," ","(","C","o","r",
      "e",")">>
\* Phase: v1.0 complete (emdash) 7 of 7 phases shipped
SP_Milestone ==
    <<"P","h","a","s","e",":"," ","v","1",".","0"," ","c","o","m","p","l","e",
      "t","e"," ","emdash"," ","7"," ","o","f"," ","7"," ","p","h","a","s",
      "e","s"," ","s","h","i","p","p","e","d">>
\* Phase: Not started
SP_NotStarted ==
    <<"P","h","a","s","e",":"," ","N","o","t"," ","s","t","a","r","t","e",
      "d">>
\* **Phase:** 1 - Base
SP_Dash ==
    <<"*","*","P","h","a","s","e",":","*","*"," ","1"," ","-"," ","B","a","s",
      "e">>
\* Phase: Planning
SP_Generic == <<"P","h","a","s","e",":"," ","P","l","a","n","n","i","n","g">>
\* Status: In progress
SP_Status ==
    <<"S","t","a","t","u","s",":"," ","I","n"," ","p","r","o","g","r","e","s",
      "s">>
\* Status: not_started
SP_StatusNotStarted ==
    <<"S","t","a","t","u","s",":"," ","n","o","t","_","s","t","a","r","t","e",
      "d">>
\* Status:
SP_StatusBare == <<"S","t","a","t","u","s",":">>
\* # State
SP_Title == <<"#"," ","S","t","a","t","e">>

StatePhaseLinePool ==
    {SP_OfTotal, SP_Milestone, SP_NotStarted, SP_Dash, SP_Generic, SP_Status,
     SP_StatusNotStarted, SP_StatusBare, SP_Title}

\* lines of a state document that bear on the progress percentage
\* Progress: [(block)(block)(shade)(shade)] 40%
SG_Bar ==
    <<"P","r","o","g","r","e","s","s",":"," ","[","block","block","shade",
      "shade","]"," ","4","0","%">>
\* 62% (5/8 requirements)
SG_Ratio ==
    <<"6","2","%"," ","(","5","/","8"," ","r","e","q","u","i","r","e","m","e",
      "n","t","s",")">>
\* Progress: 55% done
SG_Plain ==
    <<"P","r","o","g","r","e","s","s",":"," ","5","5","%"," ","d","o","n",
      "e">>
\* [(block)(block)(shade)(shade)] 25%
SG_Bare == <<"[","block","block","shade","shade","]"," ","2","5","%">>
\* Progress: [(block)(block)] 150%
SG_Over ==
    <<"P","r","o","g","r","e","s","s",":"," ","[","block","block","]"," ","1",
      "5","0","%">>
\* Progress: 10% of 20% (1/5 x)
SG_Both ==
    <<"P","r","o","g","r","e","s","s",":"," ","1","0","%"," ","o","f"," ","2",
      "0","%"," ","(","1","/","5"," ","x",")">>

StateProgressLinePool ==
    {SG_Bar, SG_Ratio, SG_Plain, SG_Bare, SG_Over, SG_Both, SP_Title}

\* lines of the sections of a state document
\* - [ ] Early
SS_Early == <<"-"," ","["," ","]"," ","E","a","r","l","y">>
\* - [ ] Fix login
SS_Todo == <<"-"," ","["," ","]"," ","F","i","x"," ","l","o","g","i","n">>
\* - [x] Done
SS_Checked == <<"-"," ","[","x","]"," ","D","o","n","e">>
\* - None.
SS_None == <<"-"," ","N","o","n","e",".">>
\* - None implemented yet.
SS_NoneYet ==
    <<"-"," ","N","o","n","e"," ","i","m","p","l","e","m","e","n","t","e","d",
      " ","y","e","t",".">>
\* ## Notes
SS_H2 == <<"#","#"," ","N","o","t","e","s">>
\* ### Other
SS_H3 == <<"#","#","#"," ","O","t","h","e","r">>

SectionLinePool == {SS_Todo, SS_Checked, SS_None, SS_NoneYet, SS_H2, SS_H3}

\* a section heading, after nothing or after one checkbox line, and up to
\* MaxSectionLines lines below it
SectionDocs ==
    {JoinLines(pre \o <<heading>> \o body) :
        pre \in {<<>>, <<SS_Early>>},
        heading \in {S_PendingTodos, S_BlockersConcerns},
        body \in SeqsUpTo(SectionLinePool, MaxSectionLines)}

StatePhaseDocs ==
    {JoinLines(ls) : ls \in SeqsUpTo(StatePhaseLinePool, MaxStateLines)}

StateProgressDocs ==
    {JoinLines(ls) : ls \in SeqsUpTo(StateProgressLinePool, MaxStateLines)}

\* todo lines of a state document
\* - [ ] Fix login
ST_Fix == <<"-"," ","["," ","]"," ","F","i","x"," ","l","o","g","i","n">>
\* - [ ] fix login
ST_FixLower == <<"-"," ","["," ","]"," ","f","i","x"," ","l","o","g","i","n">>
\* - [ ] Add tests
ST_Add == <<"-"," ","["," ","]"," ","A","d","d"," ","t","e","s","t","s">>

StateTodoLinePool == {ST_Fix, ST_FixLower, ST_Add}

TodoStateDocs ==
    {JoinLines(<<S_PendingTodos>> \o body) :
        body \in SeqsUpTo(StateTodoLinePool, MaxTodoLines)}

\* stems of the files of todos/pending
\* fix-login
PF_Fix == <<"f","i","x","-","l","o","g","i","n">>
\* 2026-02-07-fix-login
PF_DatedFix ==
    <<"2","0","2","6","-","0","2","-","0","7","-","f","i","x","-","l","o","g",
      "i","n">>
\* Add-Tests
PF_Add == <<"A","d","d","-","T","e","s","t","s">>
\* notes
PF_Notes == <<"n","o","t","e","s">>

PendingFilePool == {PF_Fix, PF_DatedFix, PF_Add, PF_Notes}

\* a directory lists each of its files once, in any order
PendingDirs ==
    {d \in SeqsUpTo(PendingFilePool, MaxFiles) :
        \A i, j \in 1..Len(d) : i # j => d[i] # d[j]}

\* listings of todos/done, over the same stems
DoneDirs == PendingDirs

\* a state document with two pending todos and a checked line between them
TodoListState == JoinLines(<<S_PendingTodos, ST_Fix, SS_Checked, ST_Add>>)

TodoListPendings == {<<PF_Fix>>, <<PF_Notes, PF_Add>>}

\* children of .planning/phases
\* 01-setup
PD_Setup == [name |-> <<"0","1","-","s","e","t","u","p">>, is_dir |-> TRUE, files |-> <<>>]
\* 02-build
PD_Build == [name |-> <<"0","2","-","b","u","i","l","d">>, is_dir |-> TRUE, files |-> <<>>]
\* 03-docs
PD_Docs == [name |-> <<"0","3","-","d","o","c","s">>, is_dir |-> TRUE, files |-> <<>>]
\* 05-core
PD_Core == [name |-> <<"0","5","-","c","o","r","e">>, is_dir |-> TRUE, files |-> <<>>]
\* 05-notes.md, a file
PD_NotesFile ==
    [name |-> <<"0","5","-","n","o","t","e","s",".","m","d">>, is_dir |-> FALSE,
     files |-> <<>>]

PhaseDirPool == {PD_Setup, PD_Build, PD_Docs, PD_Core, PD_NotesFile}

\* a directory lists each of its children once, in any order
PhasesDirs ==
    {Dir(d) : d \in {c \in SeqsUpTo(PhaseDirPool, MaxPhaseDirs) :
                        \A i, j \in 1..Len(c) : i # j => c[i] # c[j]}}

\* state documents and roadmaps that give, or do not give, a phase number
PhaseDirStates == {SP_OfTotal, SP_Dash, SP_Milestone, SP_Generic}

PhaseDirRoadmaps ==
    {JoinLines(<<RL_Done, RL_Todo>>), JoinLines(<<RL_Shipped, RL_Todo>>),
     RL_Done, JoinLines(<<RL_RowDone, RL_RowPlain>>)}

\* lines of a project document
\* - [x] Ship it
PJ_TaskDone == <<"-"," ","[","x","]"," ","S","h","i","p"," ","i","t">>
\*   - [ ] Write docs   (indented, with a trailing blank)
PJ_Task ==
    <<" "," ","-"," ","["," ","]"," ","W","r","i","t","e"," ","d","o","c","s",
      " ">>
\* ### Done
PJ_Other == <<"#","#","#"," ","D","o","n","e">>
\* - [ ] Old
PJ_Old == <<"-"," ","["," ","]"," ","O","l","d">>

ProjectDoc == JoinLines(<<PJ_Old, S_H3Active, PJ_TaskDone, PJ_Task, PJ_Other, PJ_Old>>)

\* - [X] Big
PJ_UpperX == <<"-"," ","[","X","]"," ","B","i","g">>
\* - [docs](u)
PJ_Link == <<"-"," ","[","d","o","c","s","]","(","u",")">>
\* ### Active later
PJ_ActiveLater ==
    <<"#","#","#"," ","A","c","t","i","v","e"," ","l","a","t","e","r">>

ProjectLinePool ==
    {S_H3Active, PJ_TaskDone, PJ_Task, PJ_Other, PJ_UpperX, PJ_Link, PJ_ActiveLater}

ProjectDocs ==
    {JoinLines(ls) : ls \in SeqsUpTo(ProjectLinePool, MaxProjectLines)}

\* state documents with a phase line and sections
FullState ==
    JoinLines(<<SP_OfTotal, SG_Bar, S_PendingTodos, SS_Todo, S_BlockersConcerns,
                SS_NoneYet, SS_None>>)

PlainState == JoinLines(<<SP_Generic, S_BlockersConcerns, SS_None>>)

\* Phase: 2 of 7 (Build)
SP_Second ==
    <<"P","h","a","s","e",":"," ","2"," ","o","f"," ","7"," ","(","B","u","i",
      "l","d",")">>

\* a later version of the state document: the next phase and another todo
LaterState == JoinLines(<<SP_Second, S_PendingTodos, ST_Add>>)

\* the versions of STATE.md that another process writes
StateVersions == {FullState, LaterState, PlainState}

\* phase directories with documents in them, in glob order
PD_BuildDocs ==
    [name |-> <<"0","2","-","b","u","i","l","d">>, is_dir |-> TRUE,
     files |-> <<[name |-> <<"0","2","-","0","2","-","P","L","A","N",".","m","d">>,
                  content |-> <<"p","2">>],
                 [name |-> <<"0","2","-","C","O","N","T","E","X","T",".","m","d">>,
                  content |-> <<"c","1">>],
                 [name |-> <<"0","2","-","0","1","-","P","L","A","N",".","m","d">>,
                  content |-> <<"p","1">>],
                 [name |-> <<"0","2","-","0","2","-","S","U","M","M","A","R","Y",".","m","d">>,
                  content |-> <<"s","2">>],
                 [name |-> <<"0","2","-","0","1","-","S","U","M","M","A","R","Y",".","m","d">>,
                  content |-> <<"s","1">>],
                 [name |-> <<"0","2","-","C","O","N","T","E","X","T","-","o","l","d",".","m","d">>,
                  content |-> <<"c","0">>],
                 [name |-> <<"P","L","A","N",".","t","x","t">>,
                  content |-> <<"t">>]>>]

PD_CoreDocs ==
    [name |-> <<"0","5","-","c","o","r","e">>, is_dir |-> TRUE,
     files |-> <<[name |-> <<"0","5","-","R","E","S","E","A","R","C","H",".","m","d">>,
                  content |-> <<"r">>],
                 [name |-> <<"0","5","-","V","E","R","I","F","I","C","A","T","I","O","N",".","m","d">>,
                  content |-> <<"v">>]>>]

\* files of a phase directory
\* 05-CONTEXT.md
DF_Context ==
    [name |-> <<"0","5","-","C","O","N","T","E","X","T",".","m","d">>,
     content |-> <<"c">>]
\* 05-02-PLAN.md
DF_Plan2 ==
    [name |-> <<"0","5","-","0","2","-","P","L","A","N",".","m","d">>,
     content |-> <<"p","2">>]
\* 05-01-PLAN.md
DF_Plan1 ==
    [name |-> <<"0","5","-","0","1","-","P","L","A","N",".","m","d">>,
     content |-> <<"p","1">>]
\* 05-PLAN-RESEARCH.md
DF_PlanResearch ==
    [name |-> <<"0","5","-","P","L","A","N","-","R","E","S","E","A","R","C","H",".","m","d">>,
     content |-> <<"r">>]
\* notes.md
DF_Notes ==
    [name |-> <<"n","o","t","e","s",".","m","d">>,
     content |-> <<"n">>]
\* 05-plan.md
DF_LowerPlan ==
    [name |-> <<"0","5","-","p","l","a","n",".","m","d">>,
     content |-> <<"l">>]
\* 05-PLAN.txt
DF_PlanTxt ==
    [name |-> <<"0","5","-","P","L","A","N",".","t","x","t">>,
     content |-> <<"t">>]

DocFilePool ==
    {DF_Context, DF_Plan2, DF_Plan1, DF_PlanResearch, DF_Notes, DF_LowerPlan,
     DF_PlanTxt}

\* a directory lists each of its files once, in any order
DocListings ==
    {d \in SeqsUpTo(DocFilePool, MaxDocFiles) :
        \A i, j \in 1..Len(d) : i # j => d[i] # d[j]}

\* phases/ with the directory of phase 5 holding the files listed
DocPhases ==
    {Dir(<<[name |-> <<"0", "5", "-", "c", "o", "r", "e">>, is_dir |-> TRUE, files |-> d]>>) :
        d \in DocListings}

\* the parts of a planning directory that is complete
FullProjects == {ProjectDoc}
FullRoadmaps == {JoinLines(<<RL_Done, RL_Todo>>), RL_Done}
FullStates == {FullState, PlainState}
FullPhases == {Dir(<<PD_BuildDocs, PD_NotesFile, PD_CoreDocs>>)}
FullPendings == {<<PF_Fix>>}
FullDones == {<<PF_Notes, PF_Add>>}

\* the parts of a checkbox line: the character between the brackets, the
\* phase number, the title and the description
CheckboxChars == {"x", "X", "/", " ", "?"}
WellFormedNumbers == {<<"1">>, <<"1", "2">>, <<"2", ".", "1">>}
CheckboxNumbers == WellFormedNumbers \cup {<<".">>}
CheckboxTitles == {<<"S", "e", "t", "u", "p">>, <<"A", " ", "-", " ", "B">>}
CheckboxDescs ==
    {None, Text(<<"I", "n", "i", "t">>), Text(<<"*", "*", "b", "*", "*", " ", "-", " ", "c">>)}

\* Phase N: T
CheckboxName(n, t) == S_Phase \o <<" ">> \o n \o <<":", " ">> \o t

\* - [c] **Phase N: T** - D, and without " - D" where there is no description
CheckboxLine(c, n, t, d) ==
    <<"-", " ", "[", c, "]", " ", "*", "*">> \o CheckboxName(n, t) \o <<"*", "*">>
    \o (IF d = None THEN <<>> ELSE <<" ", "-", " ">> \o d.text)

CheckboxLines ==
    {CheckboxLine(c, n, t, d) :
        c \in CheckboxChars, n \in CheckboxNumbers, t \in CheckboxTitles,
        d \in CheckboxDescs}

\* roadmaps with one checkbox line, alone, under a heading, or with a table
\* row after it
CheckboxDocs ==
    {JoinLines(pre \o <<line>> \o post) :
        pre \in {<<>>, <<RL_Heading>>}, line \in CheckboxLines,
        post \in {<<>>, <<RL_RowDone>>}}

\* the parts of a shipped line: version, name, dash, "Phase" or "Phases",
\* and the range of phases
ShippedVersions == {<<"v", "1", ".", "0">>, <<"v", "2">>}
ShippedNames == {<<"C", "o", "r", "e">>, <<"B", "i", "g", " ", "-", " ", "o", "n", "e">>}
ShippedDashes == {"emdash", "-"}
ShippedWords == {S_Phase, S_Phases}
ShippedRanges == {<<"1", "-", "7">>, <<"3">>, <<"1", ",", " ", "2">>}

\* - SHIPPED **<version> <name>** <dash> Phase[s] <range>
ShippedLine(version, name, dash, word, range) ==
    <<"-", " ">> \o S_SHIPPED \o <<" ", "*", "*">> \o version \o <<" ">> \o name
    \o <<"*", "*", " ", dash, " ">> \o word \o <<" ">> \o range

ShippedLines ==
    {ShippedLine(v, n, d, w, r) :
        v \in ShippedVersions, n \in ShippedNames, d \in ShippedDashes,
        w \in ShippedWords, r \in ShippedRanges}

\* roadmaps with one shipped line, alone, under a heading, or with a checkbox
\* line after it
ShippedDocs ==
    {JoinLines(pre \o <<line>> \o post) :
        pre \in {<<>>, <<RL_Heading>>}, line \in ShippedLines,
        post \in {<<>>, <<RL_Todo>>}}

\* first cells of a table row
\* 1. Base
FC_Dot == <<"1","."," ","B","a","s","e">>
\* 2 - Feat
FC_Hyphen == <<"2"," ","-"," ","F","e","a","t">>
\* 3 (endash) Docs
FC_EnDash == <<"3"," ","endash"," ","D","o","c","s">>
\* 4 (emdash) Ops
FC_EmDash == <<"4"," ","emdash"," ","O","p","s">>
\* 12.API
FC_DotTight == <<"1","2",".","A","P","I">>
\* 5. - Api
FC_DotThenDash == <<"5","."," ","-"," ","A","p","i">>
\* 6. Api - v2
FC_TitleWithDash == <<"6","."," ","A","p","i"," ","-"," ","v","2">>
\* 7
FC_NumberOnly == <<"7">>
\* 8 Api
FC_NoSeparator == <<"8"," ","A","p","i">>
\* Setup
FC_Word == <<"S","e","t","u","p">>
\* Phase
FC_Header == <<"P","h","a","s","e">>
\* 9. PHASE two
FC_NumberedHeader == <<"9","."," ","P","H","A","S","E"," ","t","w","o">>
\* ---
FC_Rule == <<"-","-","-">>
\* - 1. Api
FC_DashFirst == <<"-"," ","1","."," ","A","p","i">>

FirstCellPool ==
    {FC_Dot, FC_Hyphen, FC_EnDash, FC_EmDash, FC_DotTight, FC_DotThenDash,
     FC_TitleWithDash, FC_NumberOnly, FC_NoSeparator, FC_Word,
     FC_Header, FC_NumberedHeader, FC_Rule, FC_DashFirst}

\* the cells after the first
OtherCellsPool == {<<TC_Version>>, <<TC_Complete>>, <<TC_Version, TC_Count>>}

\* "| c1 | ... | cn |"
RowOf(cells) == <<"|">> \o TableRowTail(cells)

\* roadmaps with one table row, alone or under a heading
TableDocs ==
    {JoinLines(pre \o <<RowOf(<<first>> \o others)>>) :
        pre \in {<<>>, <<RL_Heading>>}, first \in FirstCellPool,
        others \in OtherCellsPool}

(***************************************************************************)
(* The dashboard application (src/dashboard.py)                            *)
(*                                                                         *)
(* Two threads: the UI thread, which runs the handlers of the application  *)
(* one at a time, and the thread of the watchdog observer, which runs      *)
(* Handler.on_any_event for one event at a time.  A refresh is a pass      *)
(* through action_refresh_data: get_all_data, then one update per view.    *)
(* The content of a view is the version of the documents that it was last  *)
(* updated from.  Any call may raise: an exception is a choice of the      *)
(* step.                                                                   *)
(***************************************************************************)
Threads == {"ui", "watcher"}

\* the views in the order in which action_refresh_data updates them, the
\* markdown tabs taken together
Views == <<"roadmap", "stats", "todos", "concerns", "markdown">>

\* the steps of action_refresh_data
RefreshSteps ==
    {"get_all_data", "update_roadmap", "update_stats", "update_todos",
     "update_concerns", "update_markdown", "return"}

StepOfView(k) == "update_" \o Views[k]

\* what a view shows before the first refresh, and after its own except
\* clause has shown the error label
Loading == 0
ErrorLabel == -1

\* GSDDashboardApp.__init__, with the views composed
Constructed ==
    /\ phase = "constructed"
    /\ observer = "none"
    /\ auto_refresh = TRUE
    /\ disk = 1
    /\ events = <<>>
    /\ posted = FALSE
    /\ pc = [t \in Threads |-> "idle"]
    /\ origin = [t \in Threads |-> "none"]
    /\ fetched = [t \in Threads |-> Loading]
    /\ raised = [t \in Threads |-> FALSE]
    /\ views = [v \in Range(Views) |-> Loading]
    /\ last_good = Loading
    /\ refresh_error = FALSE
    /\ expand_index = 0

\* thread t enters action_refresh_data
BeginRefresh(t, o) ==
    /\ pc' = [pc EXCEPT ![t] = "get_all_data"]
    /\ origin' = [origin EXCEPT ![t] = o]
    /\ raised' = [raised EXCEPT ![t] = FALSE]
    /\ refresh_error' = FALSE

\* the except clause of action_refresh_data: the notification, and the end
\* of the pass
Caught(t) ==
    /\ pc' = [pc EXCEPT ![t] = "return"]
    /\ raised' = [raised EXCEPT ![t] = TRUE]
    /\ refresh_error' = TRUE

\* on_mount: the first refresh; start_watcher follows it
OnMount ==
    /\ phase = "constructed"
    /\ phase' = "mounting"
    /\ BeginRefresh("ui", "mount")
    /\ UNCHANGED <<fs, call, arg, ret, expand_index, planning_exists, observer, auto_refresh,
                   disk, events, posted, fetched, views, last_good>>

\* data = self.parser.get_all_data(), which may raise
GetAllData(t) ==
    /\ pc[t] = "get_all_data"
    /\ \/ /\ fetched' = [fetched EXCEPT ![t] = disk]
          /\ pc' = [pc EXCEPT ![t] = StepOfView(1)]
          /\ UNCHANGED <<raised, refresh_error>>
       \/ /\ Caught(t)
          /\ UNCHANGED fetched
    /\ UNCHANGED <<fs, call, arg, ret, expand_index, planning_exists, phase, observer,
                   auto_refresh, disk, events, posted, origin, views, last_good>>

\* the step after the update of view k
AfterView(k) == IF k < Len(Views) THEN StepOfView(k + 1) ELSE "return"

\* self.query_one(view).update...(...): the view is updated; or the update
\* raises inside its own try, whose except clause shows an error label (the
\* markdown tabs keep what they show); or the call raises outside of it
UpdateView(t, k) ==
    /\ pc[t] = StepOfView(k)
    /\ \/ /\ views' = [views EXCEPT ![Views[k]] = fetched[t]]
          /\ pc' = [pc EXCEPT ![t] = AfterView(k)]
          /\ UNCHANGED <<raised, refresh_error>>
       \/ /\ views' = IF Views[k] = "markdown" THEN views
                      ELSE [views EXCEPT ![Views[k]] = ErrorLabel]
          /\ pc' = [pc EXCEPT ![t] = AfterView(k)]
          /\ raised' = [raised EXCEPT ![t] = TRUE]
          /\ UNCHANGED refresh_error
       \/ /\ Caught(t)
          /\ UNCHANGED views
    /\ UNCHANGED <<fs, call, arg, ret, expand_index, planning_exists, phase, observer,
                   auto_refresh, disk, events, posted, origin, fetched, last_good>>

\* start_watcher, which on_mount calls after the first refresh
StartedObserver == IF planning_exists THEN "started" ELSE "created"

\* action_refresh_data returns to its caller: on_mount goes on to
\* start_watcher, call_from_thread lets the watcher thread go on
Return(t) ==
    /\ pc[t] = "return"
    /\ last_good' = IF raised[t] THEN last_good ELSE fetched[t]
    /\ origin' = [origin EXCEPT ![t] = "none"]
    /\ IF origin[t] = "mount"
       THEN phase' = "mounted" /\ observer' = StartedObserver
       ELSE UNCHANGED <<phase, observer>>
    /\ IF origin[t] = "watcher"
       THEN /\ pc' = [u \in Threads |-> "idle"]
            /\ events' = Tail(events)
       ELSE /\ pc' = [pc EXCEPT ![t] = "idle"]
            /\ UNCHANGED events
    /\ UNCHANGED <<fs, call, arg, ret, expand_index, planning_exists, auto_refresh, disk,
                   posted, fetched, raised, views, refresh_error>>

\* the steps of a refresh, by the thread that runs it
RefreshStep ==
    \E t \in Threads :
        \/ GetAllData(t)
        \/ \E k \in 1..Len(Views) : UpdateView(t, k)
        \/ Return(t)

\* the UI thread is free to run the next handler
UiIdle == phase = "mounted" /\ pc["ui"] = "idle"

\* key r: action_refresh_data
ActionRefreshData ==
    /\ UiIdle
    /\ BeginRefresh("ui", "key")
    /\ UNCHANGED <<fs, call, arg, ret, expand_index, planning_exists, phase, observer,
                   auto_refresh, disk, events, posted, fetched, views, last_good>>

\* on_unmount: stop() and join() of the observer.  join() of an observer
\* that was started returns when its thread has ended; join() of one that
\* was never started raises RuntimeError (threading.Thread.join).
OnUnmount ==
    /\ UiIdle
    /\ observer = "started" => (pc["watcher"] = "idle" /\ ~posted)
    /\ phase' = IF observer = "started" THEN "unmounted" ELSE "unmount_error"
    /\ observer' = "stopped"
    /\ events' = <<>>
    /\ UNCHANGED <<fs, call, arg, ret, expand_index, planning_exists, auto_refresh, disk, posted,
                   pc, origin, fetched, raised, views, last_good, refresh_error>>

\* action_toggle_refresh with a watch_auto_refresh that only notifies
ActionToggleRefreshOnly ==
    /\ UiIdle
    /\ auto_refresh' = ~auto_refresh
    /\ UNCHANGED <<fs, call, arg, ret, expand_index, planning_exists, phase, observer, disk,
                   events, posted, fetched, views, last_good, pc, origin, raised,
                   refresh_error>>

\* key t: action_toggle_refresh, and watch_auto_refresh with the new value
ActionToggleRefresh ==
    /\ UiIdle
    /\ auto_refresh' = ~auto_refresh
    /\ IF auto_refresh'
       THEN BeginRefresh("ui", "toggle")
       ELSE UNCHANGED <<pc, origin, raised, refresh_error>>
    /\ UNCHANGED <<fs, call, arg, ret, expand_index, planning_exists, phase, observer, disk,
                   events, posted, fetched, views, last_good>>

\* the UI thread runs the callback that call_from_thread has posted
RunCallback ==
    /\ UiIdle
    /\ posted
    /\ posted' = FALSE
    /\ BeginRefresh("ui", "watcher")
    /\ UNCHANGED <<fs, call, arg, ret, expand_index, planning_exists, phase, observer,
                   auto_refresh, disk, events, fetched, views, last_good>>

\* something under .planning changes and the observer queues an event
FileChanged ==
    /\ observer = "started"
    /\ disk < MaxDisk
    /\ Len(events) < MaxEvents
    /\ disk' = disk + 1
    /\ \E d, m \in BOOLEAN : events' = Append(events, [is_directory |-> d, md |-> m])
    /\ UNCHANGED <<fs, call, arg, ret, expand_index, planning_exists, phase, observer,
                   auto_refresh, posted, pc, origin, fetched, raised, views,
                   last_good, refresh_error>>

\* on_any_event returns at "if event.is_directory" or at
\* "if not self.app.auto_refresh"
OnAnyEventDrop ==
    /\ pc["watcher"] = "idle"
    /\ events # <<>>
    /\ Head(events).is_directory \/ ~auto_refresh
    /\ events' = Tail(events)
    /\ UNCHANGED <<fs, call, arg, ret, expand_index, planning_exists, phase, observer,
                   auto_refresh, disk, posted, pc, origin, fetched, raised, views,
                   last_good, refresh_error>>

\* on_any_event passes both tests
OnAnyEventCheck ==
    /\ pc["watcher"] = "idle"
    /\ events # <<>>
    /\ ~Head(events).is_directory /\ auto_refresh
    /\ pc' = [pc EXCEPT !["watcher"] = "checked"]
    /\ UNCHANGED <<fs, call, arg, ret, expand_index, planning_exists, phase, observer,
                   auto_refresh, disk, events, posted, origin, fetched, raised,
                   views, last_good, refresh_error>>

\* on_any_event with action_refresh_data called where it stands, on the
\* watcher thread
OnAnyEventCallDirect ==
    /\ pc["watcher"] = "checked"
    /\ IF Head(events).md
       THEN /\ BeginRefresh("watcher", "watcher")
            /\ UNCHANGED events
       ELSE /\ pc' = [pc EXCEPT !["watcher"] = "idle"]
            /\ events' = Tail(events)
            /\ UNCHANGED <<origin, raised, refresh_error>>
    /\ UNCHANGED <<fs, call, arg, ret, expand_index, planning_exists, phase, observer,
                   auto_refresh, disk, posted, fetched, views, last_good>>

\* on_any_event, the test of the paths: for a markdown file
\* call_from_thread posts action_refresh_data and waits for it
OnAnyEventPost ==
    /\ pc["watcher"] = "checked"
    /\ IF Head(events).md
       THEN /\ posted' = TRUE
            /\ pc' = [pc EXCEPT !["watcher"] = "waiting"]
            /\ UNCHANGED events
       ELSE /\ pc' = [pc EXCEPT !["watcher"] = "idle"]
            /\ events' = Tail(events)
            /\ UNCHANGED posted
    /\ UNCHANGED <<fs, call, arg, ret, expand_index, planning_exists, phase, observer,
                   auto_refresh, disk, origin, fetched, raised, views, last_good,
                   refresh_error>>

(***************************************************************************)
(* The roadmap view (src/dashboard.py, RoadmapView)                        *)
(***************************************************************************)
S_in_progress == <<"i","n","_","p","r","o","g","r","e","s","s">>

\* EXPAND_LEVELS; None shows every phase
EXPAND_LEVELS == <<[visible |-> 3], [visible |-> 5], [visible |-> 10], None>>

\* _expand_index after cycle_expand
cycle_expand(index) == (index + 1) % Len(EXPAND_LEVELS)

\* _max_visible, which cycle_expand and __init__ keep at the level of the index
MaxVisibleAt(index) == EXPAND_LEVELS[index + 1]

\* current_phase_num: None, or the number as [int |-> n]
CurrentPhaseNum(current_phase_info) ==
    IF current_phase_info = <<>> THEN None
    ELSE LET first == ReSearch(LeadingDigitsRe, current_phase_info)
             second == ReSearch(PhaseNumberRe, current_phase_info)
         IN  IF first.ok THEN [int |-> ToInt(Group(first, current_phase_info, "1"))]
             ELSE IF second.ok
             THEN [int |-> ToInt(Group(second, current_phase_info, "1"))]
             ELSE None

\* the number of completed or shipped phases anywhere in the list
RECURSIVE CompletedAnywhere(_, _)
CompletedAnywhere(phases, k) ==
    IF k > Len(phases) THEN 0
    ELSE (IF phases[k].status \in {"completed", "shipped"} THEN 1 ELSE 0)
         + CompletedAnywhere(phases, k + 1)

\* leading_completed: the loop counts from phase k and leaves at the first
\* phase that is neither completed nor shipped
RECURSIVE LeadingCompleted(_, _)
LeadingCompleted(phases, k) ==
    IF k > Len(phases) THEN 0
    ELSE IF phases[k].status \in {"completed", "shipped"}
    THEN 1 + LeadingCompleted(phases, k + 1)
    ELSE 0

\* collapse_count
CollapseCount(phases, level) ==
    LET leading_completed == LeadingCompleted(phases, 1)
        max_visible == IF level # None THEN level.visible ELSE leading_completed
    IN  IF leading_completed - max_visible > 0
        THEN leading_completed - max_visible
        ELSE 0

\* the icon of a phase
Icon(status) ==
    IF status \in {"completed", "shipped"} THEN "blackcircle"
    ELSE IF status = "in_progress" THEN "halfcircle"
    ELSE "whitecircle"

\* is_active of one entry of the loop over phases
IsActive(entry, current_phase_num, phase_status) ==
    LET phase_match == ReSearch(PhaseNumberRe, entry.name)
        by_number == /\ phase_match.ok
                     /\ current_phase_num # None
                     /\ ToInt(Group(phase_match, entry.name, "1")) = current_phase_num.int
    IN  /\ by_number
        /\ ~(phase_status # <<>> /\ Contains(Lower(phase_status), S_complete))

\* the label mounted for phase i
PhaseLabel(phases, i, current_phase_num, phase_status) ==
    [kind |-> "phase",
     index |-> i,
     icon |-> Icon(phases[i].status),
     name |-> phases[i].name,
     pulse |-> IsActive(phases[i], current_phase_num, phase_status)]

\* the labels after the collapsed ones
LabelsFrom(phases, collapse_count, current_phase_num, phase_status) ==
    [j \in 1..(Len(phases) - collapse_count) |->
        PhaseLabel(phases, collapse_count + j, current_phase_num, phase_status)]

\* update_roadmap(phases, current_phase_info, phase_status): the children of
\* #roadmap-list afterwards, the view being at the expand level given
update_roadmap(phases, current_phase_info, phase_status, level) ==
    IF phases = <<>> THEN <<[kind |-> "empty-state"]>>
    ELSE (IF CollapseCount(phases, level) > 0
          THEN <<[kind |-> "collapsed-phases", count |-> CollapseCount(phases, level)]>>
          ELSE <<>>)
         \o LabelsFrom(phases, CollapseCount(phases, level),
                       CurrentPhaseNum(current_phase_info), phase_status)

\* target_phase_info and target_status of action_refresh_data
RefreshTarget(data) ==
    LET current_phase == Get(data.state, "current_phase", <<>>)
        phase_status == Get(data.state, "phase_status", <<>>)
        inferred_phase == data.inferred_active_phase
    IN  IF /\ phase_status # <<>>
           /\ Contains(Lower(phase_status), S_complete)
           /\ inferred_phase # None
        THEN [info |-> inferred_phase.name, status |-> S_in_progress]
        ELSE [info |-> current_phase, status |-> phase_status]

\* the roadmap view after action_refresh_data has updated it from data
RoadmapLabels(data, index) ==
    update_roadmap(data.roadmap.phases, RefreshTarget(data).info,
                   RefreshTarget(data).status, MaxVisibleAt(index))

\* the values of get_all_data's dict that action_refresh_data hands to the
\* roadmap view, and what the view shows afterwards
RefreshRoadmapView(index) ==
    /\ arg' = [key \in {"state", "roadmap", "inferred_active_phase"} |->
                   AllDataPart(key, parse_state(state_md), project_md, roadmap_md,
                               state_md, phases_dir, pending_dir, done_dir)]
    /\ ret' = RoadmapLabels(arg', index)

\* key r, the roadmap view
RefreshRoadmap ==
    /\ call' = "action_refresh_data"
    /\ RefreshRoadmapView(expand_index)
    /\ UNCHANGED <<fs, expand_index, planning_exists, phase, observer, auto_refresh,
                   disk, events, posted, pc, origin, fetched, raised, views,
                   last_good, refresh_error>>

\* key e: action_expand_roadmap
ActionExpandRoadmap ==
    /\ call' = "action_expand_roadmap"
    /\ expand_index' = cycle_expand(expand_index)
    /\ RefreshRoadmapView(expand_index')
    /\ UNCHANGED <<fs, planning_exists, phase, observer, auto_refresh,
                   disk, events, posted, pc, origin, fetched, raised, views,
                   last_good, refresh_error>>

InitDashboard ==
    /\ project_md = Missing
    /\ roadmap_md = Missing
    /\ state_md = Missing
    /\ phases_dir = NoDir
    /\ pending_dir = <<Missing>>
    /\ done_dir = <<Missing>>
    /\ call = "init"
    /\ arg = NoArg
    /\ ret = None
    /\ planning_exists \in BOOLEAN
    /\ Constructed

NextDashboard ==
    \/ OnMount
    \/ RefreshStep
    \/ ActionRefreshData
    \/ ActionToggleRefresh
    \/ RunCallback
    \/ FileChanged
    \/ OnAnyEventDrop
    \/ OnAnyEventCheck
    \/ OnAnyEventPost
    \/ OnUnmount

SpecDashboard == InitDashboard /\ [][NextDashboard]_vars

(***************************************************************************)
(* The roadmap operations on a planning directory                          *)
(***************************************************************************)
\* a planning directory whose parts are drawn from the given sets, before
\* any operation has run
InitFiles(projects, roadmaps, states, phases, pendings, dones) ==
    /\ project_md \in projects
    /\ roadmap_md \in roadmaps
    /\ state_md \in states
    /\ phases_dir \in phases
    /\ pending_dir \in pendings
    /\ done_dir \in dones
    /\ call = "init"
    /\ arg = NoArg
    /\ ret = None
    /\ planning_exists = TRUE
    /\ Constructed

InitRoadmap ==
    InitFiles({Missing}, RoadmapDocs \cup {Missing}, {Missing}, {NoDir},
              {<<Missing>>}, {<<Missing>>})

CallParseRoadmap ==
    /\ call' = "parse_roadmap"
    /\ arg' = NoArg
    /\ ret' = parse_roadmap(roadmap_md)
    /\ UNCHANGED <<fs, app>>

CallInferActivePhase ==
    /\ call' = "infer_active_phase_from_roadmap"
    /\ arg' = NoArg
    /\ ret' = infer_active_phase_from_roadmap(roadmap_md)
    /\ UNCHANGED <<fs, app>>

\* parse_roadmap's call of the table grammar on one line of the document
CallParseTablePhase ==
    /\ roadmap_md # Missing
    /\ \E k \in 1..Len(SplitLines(roadmap_md)) :
          /\ arg' = SplitLines(roadmap_md)[k]
          /\ ret' = _parse_table_phase(SplitLines(roadmap_md)[k])
    /\ call' = "_parse_table_phase"
    /\ UNCHANGED <<fs, app>>

NextRoadmap ==
    \/ CallParseRoadmap
    \/ CallInferActivePhase
    \/ CallParseTablePhase

SpecRoadmap == InitRoadmap /\ [][NextRoadmap]_vars

(***************************************************************************)
(* The roadmap operations on roadmaps with a checkbox line                 *)
(***************************************************************************)
InitCheckbox ==
    InitFiles({Missing}, CheckboxDocs, {Missing}, {NoDir}, {<<Missing>>},
              {<<Missing>>})

\* parse_roadmap's call of the checkbox grammar on one line of the document
CallParseCheckboxPhase ==
    /\ roadmap_md # Missing
    /\ \E k \in 1..Len(SplitLines(roadmap_md)) :
          /\ arg' = SplitLines(roadmap_md)[k]
          /\ ret' = _parse_checkbox_phase(SplitLines(roadmap_md)[k])
    /\ call' = "_parse_checkbox_phase"
    /\ UNCHANGED <<fs, app>>

NextCheckbox ==
    \/ CallParseRoadmap
    \/ CallParseCheckboxPhase
    \/ CallParseTablePhase

SpecCheckbox == InitCheckbox /\ [][NextCheckbox]_vars

(***************************************************************************)
(* The roadmap operations on roadmaps with a shipped line                  *)
(***************************************************************************)
InitShipped ==
    InitFiles({Missing}, ShippedDocs, {Missing}, {NoDir}, {<<Missing>>},
              {<<Missing>>})

\* parse_roadmap's call of the shipped grammar on one line of the document
CallParseShippedLine ==
    /\ roadmap_md # Missing
    /\ \E k \in 1..Len(SplitLines(roadmap_md)) :
          /\ arg' = SplitLines(roadmap_md)[k]
          /\ ret' = _parse_shipped_line(SplitLines(roadmap_md)[k])
    /\ call' = "_parse_shipped_line"
    /\ UNCHANGED <<fs, app>>

NextShipped ==
    \/ CallParseRoadmap
    \/ CallParseShippedLine

SpecShipped == InitShipped /\ [][NextShipped]_vars

(***************************************************************************)
(* The roadmap operations on roadmaps with a table row                     *)
(***************************************************************************)
InitTable ==
    InitFiles({Missing}, TableDocs, {Missing}, {NoDir}, {<<Missing>>},
              {<<Missing>>})

NextTable ==
    \/ CallParseRoadmap
    \/ CallParseTablePhase

SpecTable == InitTable /\ [][NextTable]_vars

(***************************************************************************)
(* The project operation on a planning directory                           *)
(***************************************************************************)
InitProject ==
    InitFiles(ProjectDocs \cup {Missing}, {Missing}, {Missing}, {NoDir},
              {<<Missing>>}, {<<Missing>>})

CallParseProject ==
    /\ call' = "parse_project"
    /\ arg' = NoArg
    /\ ret' = parse_project(project_md)
    /\ UNCHANGED <<fs, app>>

NextProject == CallParseProject

SpecProject == InitProject /\ [][NextProject]_vars

(***************************************************************************)
(* The phase documents of a planning directory                             *)
(***************************************************************************)
InitPhaseDocs ==
    InitFiles({Missing}, {Missing}, {SP_OfTotal}, DocPhases, {<<Missing>>},
              {<<Missing>>})

CallParsePhaseDocs ==
    /\ call' = "parse_phase_docs"
    /\ arg' = NoArg
    /\ ret' = parse_phase_docs(get_phase_directory(state_md, roadmap_md, phases_dir))
    /\ UNCHANGED <<fs, app>>

NextPhaseDocs == CallParsePhaseDocs

SpecPhaseDocs == InitPhaseDocs /\ [][NextPhaseDocs]_vars

(***************************************************************************)
(* get_all_data part by part, while another process writes STATE.md       *)
(***************************************************************************)
InitAllParts ==
    InitFiles(FullProjects, {JoinLines(<<RL_Done, RL_Todo>>)}, StateVersions,
              FullPhases, FullPendings, FullDones)

\* whether a call of get_all_data is under way; arg holds the keys computed
Running == call = "get_all_data" /\ Len(arg) < Len(AllDataOrder)

\* the next part of get_all_data: the first of a new call, or the one after
\* those computed, each from the files as they are at that moment
GetAllDataPart ==
    LET done == IF Running THEN arg ELSE <<>>
        sofar == IF Running THEN ret ELSE EmptyDict
        key == AllDataOrder[Len(done) + 1]
    IN  /\ call' = "get_all_data"
        /\ arg' = Append(done, key)
        /\ ret' = (key :> AllDataPart(key, Get(sofar, "state", EmptyDict), project_md,
                                      roadmap_md, state_md, phases_dir, pending_dir,
                                      done_dir)) @@ sofar
        /\ UNCHANGED <<fs, app>>

\* another process replaces STATE.md
RewriteState ==
    /\ \E content \in StateVersions \ {state_md} : state_md' = content
    /\ UNCHANGED <<project_md, roadmap_md, phases_dir, pending_dir, done_dir, call,
                   arg, ret, app>>

NextAllParts ==
    \/ GetAllDataPart
    \/ RewriteState

SpecAllParts == InitAllParts /\ [][NextAllParts]_vars

(***************************************************************************)
(* The state operations on a planning directory                            *)
(***************************************************************************)
InitStateWith(docs) ==
    InitFiles({Missing}, {Missing}, docs \cup {Missing}, {NoDir},
              {<<Missing>>}, {<<Missing>>})

CallParseState ==
    /\ call' = "parse_state"
    /\ arg' = NoArg
    /\ ret' = parse_state(state_md)
    /\ UNCHANGED <<fs, app>>

\* parse_state's call of _parse_state_phase on the content read
CallParseStatePhase ==
    /\ state_md # Missing
    /\ call' = "_parse_state_phase"
    /\ arg' = state_md
    /\ ret' = _parse_state_phase(state_md)
    /\ UNCHANGED <<fs, app>>

\* parse_state's call of _parse_progress on the content read
CallParseProgress ==
    /\ state_md # Missing
    /\ call' = "_parse_progress"
    /\ arg' = state_md
    /\ ret' = _parse_progress(state_md)
    /\ UNCHANGED <<fs, app>>

\* parse_state's call of _parse_state_todos on the content read
CallParseStateTodos ==
    /\ state_md # Missing
    /\ call' = "_parse_state_todos"
    /\ arg' = state_md
    /\ ret' = _parse_state_todos(state_md)
    /\ UNCHANGED <<fs, app>>

\* parse_state's call of _parse_state_concerns on the content read
CallParseStateConcerns ==
    /\ state_md # Missing
    /\ call' = "_parse_state_concerns"
    /\ arg' = state_md
    /\ ret' = _parse_state_concerns(state_md)
    /\ UNCHANGED <<fs, app>>

\* state documents that differ in their phase lines
InitStatePhase == InitStateWith(StatePhaseDocs)

NextStatePhase ==
    \/ CallParseStatePhase
    \/ CallParseState

SpecStatePhase == InitStatePhase /\ [][NextStatePhase]_vars

\* state documents that differ in their progress lines
InitProgress == InitStateWith(StateProgressDocs)

NextProgress ==
    \/ CallParseProgress
    \/ CallParseState

SpecProgress == InitProgress /\ [][NextProgress]_vars

\* state documents that differ in their sections
InitSections == InitStateWith(SectionDocs)

NextSections ==
    \/ CallParseStateTodos
    \/ CallParseStateConcerns

SpecSections == InitSections /\ [][NextSections]_vars

(***************************************************************************)
(* The todo operations on a planning directory                             *)
(***************************************************************************)
InitTodos ==
    InitFiles({Missing}, {Missing}, TodoStateDocs \cup {Missing}, {NoDir},
              PendingDirs \cup {<<Missing>>}, {<<Missing>>})

CallParsePendingTodos ==
    /\ call' = "parse_pending_todos"
    /\ arg' = NoArg
    /\ ret' = parse_pending_todos(pending_dir, state_md)
    /\ UNCHANGED <<fs, app>>

NextTodos == CallParsePendingTodos

SpecTodos == InitTodos /\ [][NextTodos]_vars

(***************************************************************************)
(* The two todo lists of a planning directory                              *)
(***************************************************************************)
InitTodoLists ==
    InitFiles({Missing}, {Missing}, {TodoListState, Missing}, {NoDir},
              TodoListPendings \cup {<<Missing>>}, DoneDirs \cup {<<Missing>>})

CallParseCompletedTodos ==
    /\ call' = "parse_completed_todos"
    /\ arg' = NoArg
    /\ ret' = parse_completed_todos(done_dir)
    /\ UNCHANGED <<fs, app>>

NextTodoLists ==
    \/ CallParsePendingTodos
    \/ CallParseCompletedTodos

SpecTodoLists == InitTodoLists /\ [][NextTodoLists]_vars

(***************************************************************************)
(* The phase directory operation on a planning directory                   *)
(***************************************************************************)
InitPhaseDir ==
    InitFiles({Missing}, PhaseDirRoadmaps \cup {Missing},
              PhaseDirStates \cup {Missing}, PhasesDirs \cup {NoDir},
              {<<Missing>>}, {<<Missing>>})

CallGetPhaseDirectory ==
    /\ call' = "get_phase_directory"
    /\ arg' = NoArg
    /\ ret' = get_phase_directory(state_md, roadmap_md, phases_dir)
    /\ UNCHANGED <<fs, app>>

NextPhaseDir == CallGetPhaseDirectory

SpecPhaseDir == InitPhaseDir /\ [][NextPhaseDir]_vars

(***************************************************************************)
(* The aggregate operation on a planning directory                         *)
(***************************************************************************)
\* every part of the planning directory is there or missing
InitAll ==
    InitFiles(FullProjects \cup {Missing}, FullRoadmaps \cup {Missing},
              FullStates \cup {Missing}, FullPhases \cup {NoDir},
              FullPendings \cup {<<Missing>>}, FullDones \cup {<<Missing>>})

CallGetAllData ==
    /\ call' = "get_all_data"
    /\ arg' = NoArg
    /\ ret' = get_all_data(project_md, roadmap_md, state_md, phases_dir,
                           pending_dir, done_dir)
    /\ UNCHANGED <<fs, app>>

NextAll == CallGetAllData

SpecAll == InitAll /\ [][NextAll]_vars

(***************************************************************************)
(* Properties of roadmap extraction                                        *)
(***************************************************************************)
\* the result of the first grammar, in the order checkbox, shipped, table,
\* that accepts the line; None when none does
FirstGrammar(line) ==
    IF _parse_checkbox_phase(line) # None THEN _parse_checkbox_phase(line)
    ELSE IF _parse_shipped_line(line) # None THEN _parse_shipped_line(line)
    ELSE _parse_table_phase(line)

\* C1: parse_roadmap yields, in the order of the lines, exactly one phase for
\* every line that some grammar accepts (the result of the first grammar
\* that accepts it) and nothing for a line that no grammar accepts.
C1_OnePhasePerAcceptedLineInOrder ==
    (call = "parse_roadmap" /\ roadmap_md # Missing) =>
        LET lines == SplitLines(roadmap_md)
            accepted == {k \in 1..Len(lines) : FirstGrammar(lines[k]) # None}
        IN  /\ Len(ret) = Cardinality(accepted)
            /\ Len(ret) <= Len(lines)
            /\ \A k \in accepted :
                  ret[Cardinality({j \in accepted : j <= k})] = FirstGrammar(lines[k])

\* a two-line document whose first line no grammar accepts and whose second
\* line is accepted by the second grammar has been parsed
C1_Witness ==
    /\ call = "parse_roadmap"
    /\ roadmap_md # Missing
    /\ Len(SplitLines(roadmap_md)) = 2
    /\ FirstGrammar(SplitLines(roadmap_md)[1]) = None
    /\ _parse_checkbox_phase(SplitLines(roadmap_md)[2]) = None
    /\ _parse_shipped_line(SplitLines(roadmap_md)[2]) # None
    /\ Len(ret) = 1

\* C2: the status of an accepted table row is completed if any cell after
\* the first passes the completed test, in_progress if none does and some
\* cell passes the in_progress test, and pending otherwise.
C2_TableStatusFromAnyCell ==
    (call = "_parse_table_phase" /\ ret # None) =>
        LET parts == TableParts(Strip(arg))
            anyCompleted == \E k \in 2..Len(parts) : CellCompleted(parts[k])
            anyInProgress == \E k \in 2..Len(parts) : CellInProgress(parts[k])
        IN  ret.status = IF anyCompleted THEN "completed"
                         ELSE IF anyInProgress THEN "in_progress"
                         ELSE "pending"

\* C3: infer_active_phase_from_roadmap returns the first phase of the
\* roadmap whose status is not completed, and None when there is none.
C3_FirstNotCompletedPhase ==
    call = "infer_active_phase_from_roadmap" =>
        LET phases == parse_roadmap(roadmap_md)
            open == {k \in 1..Len(phases) : phases[k].status # "completed"}
        IN  IF open = {} THEN ret = None
            ELSE /\ ret # None
                 /\ \E k \in open :
                       /\ \A j \in open : k <= j
                       /\ ret = phases[k]

\* a completed phase is followed by a shipped one, which is returned
C3_Witness ==
    /\ call = "infer_active_phase_from_roadmap"
    /\ Len(parse_roadmap(roadmap_md)) = 2
    /\ parse_roadmap(roadmap_md)[1].status = "completed"
    /\ ret # None
    /\ ret.status = "shipped"

(***************************************************************************)
(* Properties of state extraction                                          *)
(***************************************************************************)
\* the five phase formats in their order of precedence, and the fields that
\* each of them sets
PhaseFormats == <<PhaseRe1, PhaseRe2, PhaseRe3, PhaseRe4, PhaseRe5>>

PhaseFields ==
    <<{"phase_number", "total_phases", "phase_name", "current_phase"},
      {"milestone_version", "phases_shipped", "total_phases", "current_phase",
       "milestone_complete"},
      {"current_phase", "phase_status"},
      {"phase_number", "phase_name", "current_phase"},
      {"current_phase"}>>

PositionFields == UNION {PhaseFields[k] : k \in 1..5}

\* the formats that match somewhere in the document
MatchingPhaseFormats(content) ==
    {k \in 1..5 : ReSearch(PhaseFormats[k], Normalized(content)).ok}

\* the fields of the format of highest precedence among ms
WinningFields(ms) ==
    IF ms = {} THEN {}
    ELSE PhaseFields[CHOOSE k \in ms : \A j \in ms : k <= j]

MilestoneExclusive(d) ==
    "milestone_complete" \in DOMAIN d =>
        "phase_number" \notin DOMAIN d /\ "phase_name" \notin DOMAIN d

NotStartedExclusive(d) ==
    Get(d, "phase_status", <<>>) = S_not_started =>
        "phase_number" \notin DOMAIN d /\ "milestone_version" \notin DOMAIN d

\* C4 (as amended): the fields that _parse_state_phase returns are exactly
\* those of the format of highest precedence that matches the document, so
\* milestone_complete never comes with phase_number or phase_name and
\* phase_status = "not_started" never comes with phase_number or
\* milestone_version; the result of parse_state holds the same fields, with
\* the exception of phase_status, which a "Status:" line may set.
C4_FieldsOfFirstMatchingFormat ==
    /\ call = "_parse_state_phase" =>
          /\ DOMAIN ret = WinningFields(MatchingPhaseFormats(arg))
          /\ MilestoneExclusive(ret)
          /\ NotStartedExclusive(ret)
    /\ (call = "parse_state" /\ state_md # Missing) =>
          /\ (DOMAIN ret \cap PositionFields) \ {"phase_status"}
                = WinningFields(MatchingPhaseFormats(state_md)) \ {"phase_status"}
          /\ MilestoneExclusive(ret)

\* a document in which the second and the fourth format both match has been
\* parsed, and the result is the second format's
C4_Witness ==
    /\ call = "_parse_state_phase"
    /\ {2, 4} \subseteq MatchingPhaseFormats(arg)
    /\ "milestone_complete" \in DOMAIN ret
    /\ "phase_number" \notin DOMAIN ret

\* C4: the result of parse_state never holds milestone_complete together
\* with phase_number or phase_name, and never holds phase_status =
\* "not_started" together with phase_number or milestone_version.
C4_NotStartedNeverWithPhaseNumber ==
    (call = "parse_state" /\ state_md # Missing) =>
        MilestoneExclusive(ret) /\ NotStartedExclusive(ret)

\* the four progress formats in the order in which they are tried
ProgressFormats == <<ProgressRe1, ProgressRe2, ProgressRe3, ProgressRe4>>

\* the formats that match somewhere in the document
MatchingProgressFormats(content) ==
    {k \in 1..4 : ReSearch(ProgressFormats[k], content).ok}

\* the percentage in the first match of format k
ProgressOf(k, content) ==
    ToInt(Group(ReSearch(ProgressFormats[k], content), content, "1"))

\* C5: for a STATE.md that exists, parse_state returns progress_percent as
\* an integer from 0 to 100, and 0 when no progress format matches.
C5_ProgressPercentInRange ==
    (call = "parse_state" /\ state_md # Missing) =>
        /\ ret.progress_percent \in 0..100
        /\ MatchingProgressFormats(state_md) = {} => ret.progress_percent = 0

\* C6: _parse_progress returns the percentage of the lowest-numbered format
\* that matches anywhere in the document, wherever the matches of the other
\* formats are, and 0 when no format matches.
C6_LowestNumberedFormatDecides ==
    call = "_parse_progress" =>
        LET ms == MatchingProgressFormats(arg)
        IN  /\ ms = {} => ret = 0
            /\ \A k \in ms : (\A j \in ms : k <= j) => ret = ProgressOf(k, arg)

\* the second format matches after the place where the fourth format
\* matches, the first format does not match, and the second format's
\* percentage is returned
C6_Witness ==
    /\ call = "_parse_progress"
    /\ MatchingProgressFormats(arg) = {2, 4}
    /\ ReSearch(ProgressRe2, arg).start > ReSearch(ProgressRe4, arg).start
    /\ ProgressOf(2, arg) # ProgressOf(4, arg)
    /\ ret = ProgressOf(2, arg)

\* a heading of the level of the section headings or of a higher level
ClosingHeading(stripped) ==
    \/ StartsWith(stripped, <<"#", " ">>)
    \/ StartsWith(stripped, <<"#", "#", " ">>)
    \/ StartsWith(stripped, S_H3)

\* the stripped lines between the section's heading and the next heading of
\* equal or higher level
SectionLines(content, heading) ==
    LET lines == SplitLines(content)
        heads == {k \in 1..Len(lines) : Strip(lines[k]) = heading}
    IN  IF heads = {} THEN <<>>
        ELSE LET h == CHOOSE k \in heads : \A j \in heads : k <= j
                 ends == {k \in (h + 1)..Len(lines) : ClosingHeading(Strip(lines[k]))}
                 e == IF ends = {} THEN Len(lines) + 1
                      ELSE CHOOSE k \in ends : \A j \in ends : k <= j
             IN  [k \in 1..(e - h - 1) |-> Strip(lines[h + k])]

IsTodoLine(stripped) ==
    StartsWith(stripped, S_Unchecked) /\ Strip(From(stripped, 6)) # <<>>

IsConcernLine(stripped) ==
    /\ StartsWith(stripped, S_Bullet)
    /\ Strip(From(stripped, 2)) # <<>>
    /\ Lower(Strip(From(stripped, 2))) # S_none

\* the texts of the lines of ls that pass the test, in order
TextsOf(ls, Test(_), skip) ==
    LET kept == SelectSeq(ls, Test)
    IN  [k \in 1..Len(kept) |-> Strip(From(kept[k], skip))]

\* C7: the todos of the state document are the unchecked checkbox lines
\* with non-empty text between the "Pending Todos" heading and the next
\* "###", "##" or "#" heading, in document order.
C7_TodosOfSectionOnly ==
    call = "_parse_state_todos" =>
        LET texts == TextsOf(SectionLines(arg, S_PendingTodos), IsTodoLine, 6)
        IN  ret = [k \in 1..Len(texts) |-> [text |-> texts[k], checked |-> FALSE]]

\* C10: the concerns are the dash-bullet lines of the "Blockers/Concerns"
\* section in document order, without the lines whose text is "none." in
\* any case; a line whose text only begins with that word is kept.
C10_ConcernsOfSectionExceptNone ==
    call = "_parse_state_concerns" =>
        LET texts == TextsOf(SectionLines(arg, S_BlockersConcerns), IsConcernLine, 2)
        IN  ret = [k \in 1..Len(texts) |-> [text |-> texts[k]]]

(***************************************************************************)
(* Properties of todo collection                                           *)
(***************************************************************************)
\* C8: the list that parse_pending_todos returns never holds two entries
\* whose texts are equal when case is ignored.
C8_NoTwoEntriesWithEqualText ==
    call = "parse_pending_todos" =>
        \A i, j \in 1..Len(ret) :
            Lower(ret[i].text) = Lower(ret[j].text) => i = j

\* the todos of STATE.md, in document order
StateTodos == Get(parse_state(state_md), "state_todos", <<>>)

\* the state todos whose text, case ignored, is neither that of a file todo
\* nor, when earlier is set, that of an earlier state todo
KeptStateTodos(earlier) ==
    LET files == FileTodos(pending_dir)
        fileTexts == {Lower(files[k].text) : k \in 1..Len(files)}
    IN  {k \in 1..Len(StateTodos) :
            /\ Lower(StateTodos[k].text) \notin fileTexts
            /\ earlier => \A j \in 1..(k - 1) :
                             Lower(StateTodos[j].text) # Lower(StateTodos[k].text)}

\* ret is the file todos followed by the state todos of kept, in order
FilesThenKept(kept) ==
    LET files == FileTodos(pending_dir)
    IN  /\ Len(ret) = Len(files) + Cardinality(kept)
        /\ \A k \in 1..Len(files) : ret[k] = files[k]
        /\ \A k \in kept :
              ret[Len(files) + Cardinality({j \in kept : j <= k})] = StateTodos[k]

\* C9 (as amended): the merged list is the file todos, with their texts,
\* followed by every state todo whose text, case ignored, is that of no
\* file todo and of no earlier state todo; a state todo whose text equals
\* that of a file todo is dropped.
C9_FileTodosThenUnmatchedStateTodos ==
    call = "parse_pending_todos" => FilesThenKept(KeptStateTodos(TRUE))

\* a state todo that differs from a file todo in case only has been dropped
\* and another state todo has been kept after the file todo
C9_Witness ==
    /\ call = "parse_pending_todos"
    /\ Len(FileTodos(pending_dir)) = 1
    /\ Len(StateTodos) = 2
    /\ StateTodos[1].text # FileTodos(pending_dir)[1].text
    /\ Lower(StateTodos[1].text) = Lower(FileTodos(pending_dir)[1].text)
    /\ ret = <<FileTodos(pending_dir)[1], StateTodos[2]>>

\* C9: the merged list is the file todos followed by every state todo whose
\* text, case ignored, is that of no file todo.
C9_EveryUnmatchedStateTodoKept ==
    call = "parse_pending_todos" => FilesThenKept(KeptStateTodos(FALSE))

(***************************************************************************)
(* Properties of phase directory resolution                                *)
(***************************************************************************)
\* C11: get_phase_directory takes the phase number of the state document
\* when it gives one (the phase_number of the parsed state, where that is
\* set) and that of the roadmap's inferred active phase only otherwise; the
\* number is padded with zeros to two digits; the result is a directory
\* under phases/ whose name starts with that string, and None when no
\* number resolves, when phases/ is missing or when no directory's name
\* starts with the string.
C11_PhaseDirectoryOfStateThenRoadmap ==
    call = "get_phase_directory" =>
        LET state == parse_state(state_md)
            fromState == PhaseNumFromState(state)
            fromRoadmap ==
                PhaseNumFromRoadmap(infer_active_phase_from_roadmap(roadmap_md))
            num == IF fromState # <<>> THEN fromState ELSE fromRoadmap
            dirs == {k \in 1..Len(phases_dir.children) :
                        /\ phases_dir.children[k].is_dir
                        /\ StartsWith(phases_dir.children[k].name, num)}
        IN  /\ "phase_number" \in DOMAIN state =>
                  fromState # <<>> /\ ToInt(fromState) = state.phase_number
            /\ num # <<>> => Len(num) >= 2
            /\ IF num = <<>> \/ ~phases_dir.exists \/ dirs = {}
               THEN ret = None
               ELSE ret # None /\ \E k \in dirs : ret = phases_dir.children[k]

\* the state gives one number and the roadmap another, directories exist for
\* both, and the directory of the state's number has been returned
C11_Witness ==
    /\ call = "get_phase_directory"
    /\ "phase_number" \in DOMAIN parse_state(state_md)
    /\ PhaseNumFromRoadmap(infer_active_phase_from_roadmap(roadmap_md))
          \notin {<<>>, PhaseNumFromState(parse_state(state_md))}
    /\ \E k \in 1..Len(phases_dir.children) :
          /\ phases_dir.children[k].is_dir
          /\ StartsWith(phases_dir.children[k].name,
                        PhaseNumFromRoadmap(infer_active_phase_from_roadmap(roadmap_md)))
    /\ ret # None
    /\ StartsWith(ret.name, PhaseNumFromState(parse_state(state_md)))

(***************************************************************************)
(* Properties of the aggregate                                             *)
(***************************************************************************)
AllKeys ==
    {"project", "roadmap", "state", "phase_docs", "pending_todos",
     "completed_todos", "concerns", "latest_summary", "inferred_active_phase"}

\* C12: whichever of PROJECT.md, ROADMAP.md, STATE.md, phases/, todos/pending
\* and todos/done are missing, get_all_data returns its dict, with the empty
\* or default value for each missing piece (no active tasks, no phases and
\* no inferred phase, an empty state and no concerns, no phase documents and
\* no summary, no todos from files, no completed todos), and with the
\* pieces that are there extracted as their own operations extract them.
C12_MissingPiecesGiveDefaults ==
    call = "get_all_data" =>
        /\ DOMAIN ret = AllKeys
        /\ ret.project = IF project_md = Missing THEN [active_tasks |-> <<>>]
                         ELSE parse_project(project_md)
        /\ ret.roadmap = IF roadmap_md = Missing THEN [phases |-> <<>>]
                         ELSE [phases |-> parse_roadmap(roadmap_md)]
        /\ roadmap_md = Missing => ret.inferred_active_phase = None
        /\ ret.state = IF state_md = Missing THEN EmptyDict ELSE parse_state(state_md)
        /\ state_md = Missing => ret.concerns = <<>>
        /\ ~phases_dir.exists =>
              ret.phase_docs = EmptyDict /\ ret.latest_summary = None
        /\ (roadmap_md = Missing /\ state_md = Missing) =>
              ret.phase_docs = EmptyDict /\ ret.latest_summary = None
        /\ phases_dir.exists =>
              ret.phase_docs =
                  parse_phase_docs(get_phase_directory(state_md, roadmap_md, phases_dir))
        /\ ret.pending_todos =
              IF pending_dir = <<Missing>>
              THEN IF state_md = Missing THEN <<>>
                   ELSE parse_pending_todos(<<>>, state_md)
              ELSE parse_pending_todos(pending_dir, state_md)
        /\ ret.completed_todos = IF done_dir = <<Missing>> THEN <<>>
                                 ELSE parse_completed_todos(done_dir)

\* PROJECT.md, STATE.md and phases/ are missing, ROADMAP.md and todos/done
\* are there: the aggregate holds the defaults next to two phases and two
\* completed todos
C12_Witness ==
    /\ call = "get_all_data"
    /\ project_md = Missing /\ state_md = Missing /\ ~phases_dir.exists
    /\ roadmap_md # Missing /\ done_dir # <<Missing>>
    /\ ret.project = [active_tasks |-> <<>>]
    /\ ret.state = EmptyDict
    /\ Len(ret.roadmap.phases) = 2
    /\ Len(ret.completed_todos) = 2

\* C13 (refuted by the code): a refresh that a file notification started
\* never runs while auto_refresh is false.  on_any_event reads auto_refresh
\* on the watcher thread and hands the refresh over afterwards; the UI thread
\* can run action_toggle_refresh in between.
C13_NoNotifiedRefreshWhileDisabled ==
    \A t \in Threads :
        (pc[t] \in RefreshSteps /\ origin[t] = "watcher") => auto_refresh

\* C14: the refresh that a notification starts runs on the UI thread, while
\* the watcher thread waits in call_from_thread; the watcher thread never
\* runs a step of a refresh, and no two refreshes run at the same time.
C14_NotifiedRefreshOnUiThreadOnly ==
    /\ pc["watcher"] \notin RefreshSteps
    /\ origin["watcher"] = "none"
    /\ (pc["ui"] \in RefreshSteps /\ origin["ui"] = "watcher") => pc["watcher"] = "waiting"
    /\ posted => (pc["watcher"] = "waiting" /\ origin["ui"] # "watcher")

C14_Witness ==
    /\ pc["ui"] = "update_todos"
    /\ origin["ui"] = "watcher"
    /\ pc["watcher"] = "waiting"

\* C15 (refuted by the code): after a refresh in which an exception was
\* raised, the error notification has been shown and every view shows what
\* the last refresh without an exception gave it.  The views updated before
\* the exception keep the content of the failed refresh, and a view whose own
\* except clause caught the exception shows an error label, without a
\* notification.
C15_FailedRefreshLeavesViewsAndNotifies ==
    (pc["ui"] = "idle" /\ raised["ui"]) =>
        /\ refresh_error
        /\ \A v \in Range(Views) : views[v] = last_good

\* C16: every result of get_all_data holds the nine keys; its concerns are
\* the concerns of its state (none when the state has none), and its
\* inferred_active_phase is the first element of its roadmap's phases whose
\* status is not completed, or None when there is no such element.
C16_NineKeysAndPartsAgree ==
    call = "get_all_data" =>
        /\ DOMAIN ret = AllKeys
        /\ ret.concerns = IF "concerns" \in DOMAIN ret.state
                          THEN ret.state["concerns"] ELSE <<>>
        /\ LET phases == ret.roadmap.phases
               open == {k \in 1..Len(phases) : phases[k].status # "completed"}
           IN  IF open = {} THEN ret.inferred_active_phase = None
               ELSE \E k \in open :
                       /\ \A j \in open : k <= j
                       /\ ret.inferred_active_phase = phases[k]

\* a completed and a pending phase, and a state with a concern
C16_Witness ==
    /\ call = "get_all_data"
    /\ Len(ret.roadmap.phases) = 2
    /\ ret.roadmap.phases[1].status = "completed"
    /\ ret.inferred_active_phase = ret.roadmap.phases[2]
    /\ ret.concerns # <<>>
    /\ ret.concerns = ret.state["concerns"]

(***************************************************************************)
(* Properties of the checkbox grammar                                      *)
(***************************************************************************)
\* the place in parse_roadmap's list of the phase of line k
PhaseIndex(lines, k) == Cardinality({j \in 1..k : FirstGrammar(lines[j]) # None})

\* the status that the character between the brackets stands for
StatusOfChar(c) ==
    IF c \in {"x", "X"} THEN "completed"
    ELSE IF c = "/" THEN "in_progress"
    ELSE "pending"

\* C17: whatever the character between the brackets of an accepted checkbox
\* line, the status is completed for x and X, in_progress for /, and pending
\* for a space and for any other character, in the result of the checkbox
\* grammar and in parse_roadmap's phase of the line; never shipped or absent.
C17_CheckboxStatusMapTotal ==
    /\ (call = "_parse_checkbox_phase" /\ ret # None) =>
          /\ "status" \in DOMAIN ret
          /\ ret.status = StatusOfChar(Strip(arg)[4])
          /\ ret.status \in {"completed", "in_progress", "pending"}
    /\ call = "parse_roadmap" =>
          LET lines == SplitLines(roadmap_md)
          IN  \A k \in 1..Len(lines) :
                  _parse_checkbox_phase(lines[k]) # None =>
                      ret[PhaseIndex(lines, k)].status = StatusOfChar(Strip(lines[k])[4])

\* a line with X, and a line with a character that the map does not hold
C17_Witness ==
    /\ call = "_parse_checkbox_phase"
    /\ ret # None
    /\ Strip(arg)[4] = "?"
    /\ ret.status = "pending"

\* C18: for every line "- [x] **Phase N: T** - D" of the roadmap, N an
\* integer or a decimal number, parse_roadmap yields exactly one phase, at
\* the line's place among the accepted lines, with status completed, the
\* name "Phase N: T" and the description D; without " - D" the description
\* is empty.
C18_WellFormedCheckboxLineParsedExactly ==
    call = "parse_roadmap" =>
        LET lines == SplitLines(roadmap_md)
        IN  \A k \in 1..Len(lines) :
            \A n \in WellFormedNumbers, t \in CheckboxTitles, d \in CheckboxDescs :
                lines[k] = CheckboxLine("x", n, t, d) =>
                    /\ Len(ret) = Cardinality({j \in 1..Len(lines) : FirstGrammar(lines[j]) # None})
                    /\ PhaseIndex(lines, k) = PhaseIndex(lines, k - 1) + 1
                    /\ ret[PhaseIndex(lines, k)] =
                          [name |-> CheckboxName(n, t),
                           description |-> IF d = None THEN <<>> ELSE d.text,
                           status |-> "completed"]

\* a decimal number, a title with a dash in it and a description with bold
\* text, under a heading and before a table row
C18_Witness ==
    /\ call = "parse_roadmap"
    /\ roadmap_md =
          JoinLines(<<RL_Heading,
                      CheckboxLine("x", <<"2", ".", "1">>, <<"A", " ", "-", " ", "B">>,
                                   Text(<<"*", "*", "b", "*", "*", " ", "-", " ", "c">>)),
                      RL_RowDone>>)
    /\ Len(ret) = 2
    /\ ret[1].description = <<"*", "*", "b", "*", "*", " ", "-", " ", "c">>

\* C19 (refuted by the code): the name of every phase that the checkbox
\* grammar or the table grammar produces holds "Phase " followed by a digit,
\* the phase number that update_roadmap extracts.  The checkbox pattern
\* takes a number made of dots only.
C19_CheckboxAndTableNamesHoldNumber ==
    (call \in {"_parse_checkbox_phase", "_parse_table_phase"} /\ ret # None) =>
        ReSearch(PhaseNumberRe, ret.name).ok

(***************************************************************************)
(* Properties of the two todo lists                                        *)
(***************************************************************************)
\* C20: every completed todo is checked and the completed todos are in
\* ascending order of their texts; every pending todo, from a file or from
\* the state document, is unchecked.
C20_CompletedCheckedSortedPendingUnchecked ==
    /\ call = "parse_completed_todos" =>
          /\ \A k \in 1..Len(ret) : ret[k].checked = TRUE
          /\ \A i, j \in 1..Len(ret) : i < j => ~TextLess(ret[j].text, ret[i].text)
          /\ Len(ret) = IF done_dir = <<Missing>> THEN 0 ELSE Len(done_dir)
    /\ call = "parse_pending_todos" =>
          \A k \in 1..Len(ret) : ret[k].checked = FALSE

\* todos/done lists notes before Add-Tests, and the result is in the other
\* order
C20_Witness ==
    /\ call = "parse_completed_todos"
    /\ done_dir = <<PF_Notes, PF_Add>>
    /\ Len(ret) = 2
    /\ ret[1].text = Prettify(PF_Add)
    /\ ret[2].text = Prettify(PF_Notes)
    /\ ret[1].checked

(***************************************************************************)
(* Properties of phase_status                                              *)
(***************************************************************************)
\* the text of line after the first occurrence of p in it
AfterFirst(line, p) ==
    LET at == {i \in 1..(Len(line) - Len(p) + 1) : SubSeq(line, i, i + Len(p) - 1) = p}
        first == CHOOSE i \in at : \A j \in at : i <= j
    IN  SubSeq(line, first + Len(p), Len(line))

\* C21 (refuted by the code): when the third format decides the phase
\* position, phase_status is "not_started" whatever the "Status:" lines say;
\* otherwise phase_status is the text that follows "Status:" on the first
\* line that holds it, and is absent when no line holds it.  The \s* of the
\* pattern runs over the end of the line, so that an empty "Status:" line
\* gives the text of the line after it.
C21_StatusOfFormat3OrOfFirstStatusLine ==
    (call = "parse_state" /\ state_md # Missing) =>
        LET lines == SplitLines(state_md)
            ms == MatchingPhaseFormats(state_md)
            at == {k \in 1..Len(lines) : Contains(lines[k], S_StatusColon)}
        IN  IF 3 \in ms /\ 1 \notin ms /\ 2 \notin ms
            THEN Get(ret, "phase_status", None) = S_not_started
            ELSE IF at = {} THEN "phase_status" \notin DOMAIN ret
            ELSE Get(ret, "phase_status", None) =
                    Strip(AfterFirst(lines[CHOOSE k \in at : \A j \in at : k <= j],
                                     S_StatusColon))

(***************************************************************************)
(* Properties of the shipped grammar                                       *)
(***************************************************************************)
\* the record of a shipped line of the parts given
ShippedRecord(version, name, range) ==
    [name |-> version \o <<" ">> \o name,
     description |-> S_Phases \o <<" ">> \o range,
     status |-> "shipped",
     version |-> version,
     phases |-> range]

\* C22: a line that the shipped grammar accepts gives one record with the
\* status shipped, never completed, whose name starts with its version and
\* whose description is "Phases " and its range; for the line built of a
\* version, a name, a dash or em dash, "Phase" or "Phases" and a range the
\* record holds exactly these parts, and parse_roadmap holds that record at
\* the line's place.
C22_ShippedLineGivesShippedRecord ==
    /\ (call = "_parse_shipped_line" /\ ret # None) =>
          /\ DOMAIN ret = {"name", "description", "status", "version", "phases"}
          /\ ret.status = "shipped"
          /\ StartsWith(ret.name, ret.version \o <<" ">>)
          /\ ret.description = S_Phases \o <<" ">> \o ret.phases
          /\ \A v \in ShippedVersions, n \in ShippedNames, d \in ShippedDashes,
                w \in ShippedWords, r \in ShippedRanges :
                arg = ShippedLine(v, n, d, w, r) => ret = ShippedRecord(v, n, r)
    /\ call = "parse_roadmap" =>
          LET lines == SplitLines(roadmap_md)
          IN  \A k \in 1..Len(lines) :
                  _parse_shipped_line(lines[k]) # None =>
                      /\ PhaseIndex(lines, k) = PhaseIndex(lines, k - 1) + 1
                      /\ ret[PhaseIndex(lines, k)].status = "shipped"
                      /\ \A v \in ShippedVersions, n \in ShippedNames,
                            d \in ShippedDashes, w \in ShippedWords,
                            r \in ShippedRanges :
                            lines[k] = ShippedLine(v, n, d, w, r) =>
                                ret[PhaseIndex(lines, k)] = ShippedRecord(v, n, r)

\* a line with a hyphen, "Phase" in the singular and one number
C22_Witness ==
    /\ call = "_parse_shipped_line"
    /\ arg = ShippedLine(<<"v", "2">>, <<"B", "i", "g", " ", "-", " ", "o", "n", "e">>,
                         "-", S_Phase, <<"3">>)
    /\ ret # None
    /\ ret.description = S_Phases \o <<" ", "3">>
    /\ ret.status = "shipped"

(***************************************************************************)
(* Properties of the table grammar                                         *)
(***************************************************************************)
Dashes == {"-", "endash", "emdash"}

\* the length of the run of digits that cell starts with
DigitRun(cell) ==
    Cardinality({n \in 1..Len(cell) : \A k \in 1..n : cell[k] \in Digits})

\* the place after the dots and blanks that follow the number
AfterDots(cell) ==
    DigitRun(cell) + 1
    + Cardinality({n \in 1..(Len(cell) - DigitRun(cell)) :
                      \A k \in 1..n : cell[DigitRun(cell) + k] \in {"."} \cup Whitespace})

\* "<N> - <title>", with a hyphen, an en dash or an em dash
DashForm(cell) ==
    /\ DigitRun(cell) > 0
    /\ AfterDots(cell) <= Len(cell)
    /\ cell[AfterDots(cell)] \in Dashes

\* "<N>. <title>"
DotForm(cell) ==
    /\ DigitRun(cell) > 0
    /\ DigitRun(cell) < Len(cell)
    /\ cell[DigitRun(cell) + 1] = "."

CellTitle(cell) ==
    IF DashForm(cell) THEN Strip(SubSeq(cell, AfterDots(cell) + 1, Len(cell)))
    ELSE Strip(SubSeq(cell, DigitRun(cell) + 2, Len(cell)))

\* whether the row of these cells gives a phase
RowGivesPhase(cells) ==
    /\ Len(cells) >= 3
    /\ ~Contains(Lower(cells[1]), S_phase)
    /\ cells[1][1] # "-"
    /\ DashForm(cells[1]) \/ DotForm(cells[1])

\* C23: a table row gives no phase when it has fewer than three cells, when
\* its first cell holds "phase" in any letter case, when its first cell
\* starts with "-", and when its first cell is neither "<N>. <title>" nor
\* "<N> - <title>"; every other row gives one phase, named
\* "Phase <N>: <title>", in the grammar's result and in parse_roadmap's list.
C23_TableRowsRejectedAndNamed ==
    /\ call = "_parse_table_phase" =>
          \A first \in FirstCellPool, others \in OtherCellsPool :
              arg = RowOf(<<first>> \o others) =>
                  IF RowGivesPhase(<<first>> \o others)
                  THEN /\ ret # None
                       /\ ret.name = S_Phase \o <<" ">> \o SubSeq(first, 1, DigitRun(first))
                                     \o <<":", " ">> \o CellTitle(first)
                  ELSE ret = None
    /\ call = "parse_roadmap" =>
          \A first \in FirstCellPool, others \in OtherCellsPool :
              LET lines == SplitLines(roadmap_md)
              IN  lines[Len(lines)] = RowOf(<<first>> \o others) =>
                      IF RowGivesPhase(<<first>> \o others)
                      THEN /\ Len(ret) = 1
                           /\ ret[1].name =
                                 S_Phase \o <<" ">> \o SubSeq(first, 1, DigitRun(first))
                                 \o <<":", " ">> \o CellTitle(first)
                      ELSE ret = <<>>

\* a row whose first cell has an en dash, and three cells
C23_Witness ==
    /\ call = "_parse_table_phase"
    /\ arg = RowOf(<<FC_EnDash, TC_Version, TC_Count>>)
    /\ ret # None
    /\ ret.name = S_Phase \o <<" ", "3", ":", " ", "D", "o", "c", "s">>

(***************************************************************************)
(* Properties of the project's active tasks                                *)
(***************************************************************************)
\* "- [c]" with one character between the brackets
IsCheckboxLine(line) ==
    /\ Len(line) >= 5
    /\ SubSeq(line, 1, 3) = <<"-", " ", "[">>
    /\ line[5] = "]"

\* the lines after the first "### Active" heading and before the next
\* "### " heading
ActiveSection(lines) ==
    LET heads == {k \in 1..Len(lines) : StartsWith(Strip(lines[k]), S_H3Active)}
        first == CHOOSE k \in heads : \A j \in heads : k <= j
        ends == {k \in (first + 1)..Len(lines) : StartsWith(Strip(lines[k]), S_H3)}
        last == IF ends = {} THEN Len(lines)
                ELSE (CHOOSE k \in ends : \A j \in ends : k <= j) - 1
    IN  IF heads = {} THEN <<>>
        ELSE [k \in 1..(last - first) |-> Strip(lines[first + k])]

\* the task of a checkbox line
TaskOf(line) ==
    [text |-> Strip(From(line, 5)), checked |-> line[4] \in {"x", "X"}]

TasksOf(lines) ==
    LET boxes == SelectSeq(lines, IsCheckboxLine)
    IN  [k \in 1..Len(boxes) |-> TaskOf(boxes[k])]

\* C24 (refuted by the code): the active tasks are the checkbox lines
\* between the first "### Active" heading and the next "### " heading, or
\* the end of the document, in the order of the document, each checked
\* exactly when its box is checked.  The code takes every line that starts
\* with "- [", reads "- [X]" as unchecked, and does not end the section at a
\* heading that starts with "### Active" again.
C24_ActiveTasksOfFirstSection ==
    (call = "parse_project" /\ project_md # Missing) =>
        ret.active_tasks = TasksOf(ActiveSection(SplitLines(project_md)))

(***************************************************************************)
(* Properties of the phase documents                                       *)
(***************************************************************************)
Keywords == <<S_CONTEXT, S_RESEARCH, S_VERIFICATION, S_PLAN>>
Categories == <<"context", "research", "verification", "plans">>

\* the category of a file: that of the first keyword, in the order of the
\* tests, that its name holds; "" for a file that is not markdown or holds
\* none
CategoryOf(file) ==
    LET held == {k \in 1..4 : Contains(file.name, Keywords[k])}
    IN  IF ~EndsWith(file.name, S_DotMd) \/ held = {} THEN ""
        ELSE Categories[CHOOSE k \in held : \A j \in held : k <= j]

\* the contents that a result of parse_phase_docs holds
ContentsIn(docs) ==
    {docs[key] : key \in DOMAIN docs \ {"plans"}}
    \cup (IF "plans" \in DOMAIN docs
          THEN {docs.plans[k].content : k \in 1..Len(docs.plans)} ELSE {})

\* C25: every markdown file of the phase directory falls under at most one
\* category, that of the first of CONTEXT, RESEARCH, VERIFICATION, PLAN that
\* its name holds in capitals; the plans are exactly the files under PLAN, in
\* ascending order of their names in whatever order the directory lists
\* them; the other keys hold the content of a file of their category; a
\* file under no category is nowhere in the result.
C25_PhaseDocsByKeywordPlansSorted ==
    call = "parse_phase_docs" =>
        LET files == phases_dir.children[1].files
            under(c) == {k \in 1..Len(files) : CategoryOf(files[k]) = c}
        IN  /\ \A c \in {"context", "research", "verification"} :
                  /\ c \in DOMAIN ret <=> under(c) # {}
                  /\ c \in DOMAIN ret => \E k \in under(c) : ret[c] = files[k].content
            /\ "plans" \in DOMAIN ret <=> under("plans") # {}
            /\ "plans" \in DOMAIN ret =>
                  /\ Len(ret.plans) = Cardinality(under("plans"))
                  /\ \A k \in under("plans") :
                        \E i \in 1..Len(ret.plans) : ret.plans[i] = files[k]
                  /\ \A i, j \in 1..Len(ret.plans) :
                        i < j => TextLess(ret.plans[i].name, ret.plans[j].name)
            /\ \A k \in under("") : files[k].content \notin ContentsIn(ret)

\* the directory lists the second plan before the first, and a file with
\* PLAN and RESEARCH in its name after them
C25_Witness ==
    /\ call = "parse_phase_docs"
    /\ phases_dir.children[1].files = <<DF_Plan2, DF_Plan1, DF_PlanResearch>>
    /\ ret.plans = <<DF_Plan1, DF_Plan2>>
    /\ ret.research = DF_PlanResearch.content

(***************************************************************************)
(* Properties of the aggregate while STATE.md is rewritten                 *)
(***************************************************************************)
\* the phase directory that the state of a result selects
DirOfResult(result) ==
    PhaseDirOf(OrFromRoadmap(PhaseNumFromState(result.state), roadmap_md), phases_dir)

\* C26 (refuted by the code): in a complete result of get_all_data every
\* pending todo that does not come from a file is one of the result's
\* state.state_todos, and phase_docs and latest_summary are those of the
\* directory that the result's state selects, also when STATE.md is
\* rewritten during the call.  get_all_data reads STATE.md four times.
C26_PartsOfOneStateVersion ==
    (call = "get_all_data" /\ Len(arg) = Len(AllDataOrder)) =>
        LET todos == Get(ret.state, "state_todos", <<>>)
            files == Len(FileTodos(pending_dir))
        IN  /\ \A k \in (files + 1)..Len(ret.pending_todos) :
                  \E i \in 1..Len(todos) : todos[i] = ret.pending_todos[k]
            /\ ret.phase_docs = parse_phase_docs(DirOfResult(ret))
            /\ ret.latest_summary = get_latest_phase_summary(DirOfResult(ret))

\* str(n) of a natural number
RECURSIVE Str(_)
Str(n) ==
    IF n < 10 THEN <<DigitChars[n + 1]>>
    ELSE Str(n \div 10) \o <<DigitChars[(n % 10) + 1]>>

\* roadmaps for the roadmap view: a run of completed phases, the first of
\* them a shipped milestone in some, and the phases of a tail after the run
MaxLeading == 11

S_Step == <<"S","t","e","p">>

\* - [c] **Phase n: Step**
ViewLine(c, n) == CheckboxLine(c, Str(n), S_Step, None)

ViewRoadmap(leading, shipped_first, tail) ==
    JoinLines([i \in 1..(leading + Len(tail)) |->
                  IF i = 1 /\ shipped_first /\ leading > 0 THEN RL_Shipped
                  ELSE IF i <= leading THEN ViewLine("x", i)
                  ELSE ViewLine(tail[i - leading], i)])

\* the status characters of the phases after the run
ViewTails == {<<>>, <<" ">>, <<"/", "x">>}

ViewRoadmaps ==
    {ViewRoadmap(k, s, t) :
        k \in 0..MaxLeading, s \in BOOLEAN, t \in ViewTails}

\* Phase: 12 of 13 (Late)
SP_Twelfth ==
    <<"P","h","a","s","e",":"," ","1","2"," ","o","f"," ","1","3"," ","(","L",
      "a","t","e",")">>
\* Status: Phase complete
SP_StatusComplete ==
    <<"S","t","a","t","u","s",":"," ","P","h","a","s","e"," ","c","o","m","p",
      "l","e","t","e">>

\* state documents for the roadmap view
ViewStates ==
    {JoinLines(<<SP_OfTotal, SP_Status>>),
     JoinLines(<<SP_Twelfth, SP_Status>>),
     JoinLines(<<SP_OfTotal, SP_StatusComplete>>),
     JoinLines(<<SP_Milestone>>)}

InitRoadmapView ==
    InitFiles({Missing}, ViewRoadmaps, ViewStates, {NoDir}, {<<Missing>>},
              {<<Missing>>})

NextRoadmapView ==
    \/ RefreshRoadmap
    \/ ActionExpandRoadmap

SpecRoadmapView == InitRoadmapView /\ [][NextRoadmapView]_vars

(***************************************************************************)
(* Properties of the application's lifecycle                               *)
(***************************************************************************)
\* C27 (refuted by the code): on_unmount completes without an error in
\* every lifecycle.  Where .planning does not exist at mount time the
\* observer is created and not started, and on_unmount joins it all the
\* same.
C27_UnmountCompletesWithoutError ==
    /\ phase # "unmount_error"
    /\ observer = "stopped" => planning_exists

\* the toggle and the refresh key, as steps
DisabledToEnabled == ~auto_refresh /\ auto_refresh'
EnabledToDisabled == auto_refresh /\ ~auto_refresh'

\* C28: a change of auto_refresh from disabled to enabled starts one
\* refresh in the same handler, and that refresh reads the documents as
\* they are now; a change from enabled to disabled starts none; and the
\* refresh key starts a refresh whenever the UI thread is free, whatever
\* auto_refresh is.
C28_ToggleOnRefreshesOffDoesNot ==
    /\ [][DisabledToEnabled =>
            (pc["ui"] = "idle" /\ pc'["ui"] = "get_all_data" /\ origin'["ui"] = "toggle")]_vars
    /\ [][(pc["ui"] = "get_all_data" /\ pc'["ui"] = "update_roadmap") =>
            fetched'["ui"] = disk]_vars
    /\ [][EnabledToDisabled => UNCHANGED <<pc, origin, fetched, views>>]_vars
    /\ [](UiIdle => ENABLED ActionRefreshData)

\* a change was dropped while auto_refresh was disabled, and the refresh of
\* the toggle has brought it into every view
C28_Witness ==
    /\ origin["ui"] = "toggle"
    /\ pc["ui"] = "return"
    /\ ~raised["ui"]
    /\ auto_refresh
    /\ disk > last_good
    /\ last_good > Loading
    /\ events = <<>>
    /\ \A v \in Range(Views) : views[v] = disk

(***************************************************************************)
(* Properties of the roadmap view                                          *)
(***************************************************************************)
\* the roadmap view has been updated by the last operation
ViewUpdated == call \in {"action_refresh_data", "action_expand_roadmap"}

ViewPhases == arg.roadmap.phases
IsDonePhase(i) == ViewPhases[i].status \in {"completed", "shipped"}

\* the length of the leading run of completed or shipped phases
LeadingRun ==
    Cardinality({n \in 1..Len(ViewPhases) : \A i \in 1..n : IsDonePhase(i)})

\* the phases that have a label in the view, and those that have none
Displayed == {ret[j].index : j \in {k \in 1..Len(ret) : ret[k].kind = "phase"}}
Hidden == (1..Len(ViewPhases)) \ Displayed

\* the number of phases a level hides
HiddenAt(level) ==
    IF level = None THEN 0
    ELSE IF LeadingRun - level.visible > 0 THEN LeadingRun - level.visible
    ELSE 0

\* C29: at every expand level that cycle_expand reaches (3, 5, 10, All) the
\* view hides max(0, leading run - max_visible) phases, these are the
\* earliest phases of the leading run of completed or shipped phases, the
\* "All" level hides none, the first phase that is not completed or
\* shipped and every phase after it have a label, the labels are in the
\* order of the phases, and the collapsed label states the number hidden.
C29_OnlyLeadingCompletedHidden ==
    ViewUpdated =>
        /\ expand_index \in 0..3
        /\ Cardinality(Hidden) = HiddenAt(MaxVisibleAt(expand_index))
        /\ Hidden = 1..Cardinality(Hidden)
        /\ Hidden \subseteq 1..LeadingRun
        /\ MaxVisibleAt(expand_index) = None => Hidden = {}
        /\ \A i \in 1..Len(ViewPhases) : i > LeadingRun => i \in Displayed
        /\ \A j, k \in 1..Len(ret) :
              (j < k /\ ret[j].kind = "phase" /\ ret[k].kind = "phase")
                  => ret[j].index < ret[k].index
        /\ (Hidden # {}) =
              (ret # <<>> /\ ret[1].kind = "collapsed-phases"
                  /\ ret[1].count = Cardinality(Hidden))

\* the view was expanded to the level of 10, one phase of a leading run of
\* eleven is hidden, and a completed phase after the first open one shows
C29_Witness ==
    /\ call = "action_expand_roadmap"
    /\ MaxVisibleAt(expand_index) = [visible |-> 10]
    /\ Hidden = {1}
    /\ LeadingRun < Len(ViewPhases) - 1
    /\ IsDonePhase(Len(ViewPhases))

\* the phases whose label pulses
Pulsing ==
    {ret[j].index : j \in {k \in 1..Len(ret) : ret[k].kind = "phase" /\ ret[k].pulse}}

\* text holds the decimal numeral of n at position k, and no digit after it
NumeralAt(text, k, n) ==
    /\ k <= Len(text) + 1
    /\ StartsWith(SubSeq(text, k, Len(text)), Str(n))
    /\ k + Len(Str(n)) <= Len(text) => text[k + Len(Str(n))] \notin Digits

\* the numbers that a text names after the word Phase, and the number that a
\* phase pointer names: the one it begins with or else the one after Phase
NumbersAfterPhase(text) ==
    {n \in 0..(MaxLeading + 9) :
        \E k \in 1..Len(text) :
            /\ StartsWith(SubSeq(text, k, Len(text)), S_Phase \o <<" ">>)
            /\ NumeralAt(text, k + 6, n)}
NumbersOfPointer(text) ==
    IF \E n \in 0..(MaxLeading + 9) : NumeralAt(text, 1, n)
    THEN {n \in 0..(MaxLeading + 9) : NumeralAt(text, 1, n)}
    ELSE NumbersAfterPhase(text)

\* the state says that its phase is complete
StateComplete ==
    Contains(Lower(Get(arg.state, "phase_status", <<>>)), S_complete)

\* the index of the phase that the roadmap infers to be active
InferredIndex ==
    CHOOSE i \in 1..Len(ViewPhases) :
        /\ ViewPhases[i].status # "completed"
        /\ \A j \in 1..(i - 1) : ViewPhases[j].status = "completed"

\* the text whose number decides the highlight
TargetText ==
    IF StateComplete /\ arg.inferred_active_phase # None
    THEN arg.inferred_active_phase.name
    ELSE Get(arg.state, "current_phase", <<>>)

\* a label pulses only if the number of its phase is the target's
PulsingOnlyAtTarget ==
    \A i \in Pulsing :
        NumbersAfterPhase(ViewPhases[i].name) \cap NumbersOfPointer(TargetText) # {}

\* where the state does not say complete, the labels that pulse are those
\* of the displayed phases with the number of the state's pointer
PulsingFollowsPointer ==
    ~StateComplete =>
        \A i \in Displayed :
            (i \in Pulsing) =
                (NumbersAfterPhase(ViewPhases[i].name)
                    \cap NumbersOfPointer(Get(arg.state, "current_phase", <<>>)) # {})

\* where the state says complete, the label of the inferred active phase
\* pulses, and none does where no phase is inferred
PulsingAtInferred ==
    StateComplete =>
        IF arg.inferred_active_phase = None THEN Pulsing = {}
        ELSE InferredIndex \in Pulsing

\* C30 (refuted by the code): the highlighted entry follows the state's
\* phase pointer; where phase_status contains "complete" the inferred
\* active phase of the roadmap is highlighted instead, and no entry where
\* there is none; and an entry is highlighted only if its phase number is
\* the target's.  A shipped milestone is inferred to be active, its name
\* holds no phase number, and no entry is highlighted then.
C30_HighlightFollowsPointerOrInferred ==
    ViewUpdated =>
        /\ PulsingOnlyAtTarget
        /\ PulsingFollowsPointer
        /\ PulsingAtInferred

====
